---- MODULE Spec2Model ----
(***************************************************************************)
(* State-machine model of node-ofono's mirror layer: the Modem, VoiceCall, *)
(* NetworkRegistration, Handsfree and VoiceCallManager classes, their      *)
(* construction paths, property setters, action methods and the            *)
(* PropertyChanged handlers registered by listenForChanges.                *)
(*                                                                         *)
(* A JavaScript value is a record [t, v]: t is the typeof-like tag and v   *)
(* the payload.  A mirror is a record holding its snapshot and the         *)
(* position of its (un-awaited) listenForChanges call.  Every call of the  *)
(* public API is a task record holding the position of the async body,     *)
(* the RPCs it issued and what its caller observed.                        *)
(***************************************************************************)
EXTENDS Integers, Sequences, FiniteSets, TLC

VARIABLES mirrors, tasks, delivered

vars == <<mirrors, tasks, delivered>>

\* ------------------------------------------------------------ bounds
\* the mirrors a behaviour constructs, and the API calls plus delivered
\* signals it holds
MaxMirrors == 2
MaxOps == 2

\* ------------------------------------------------------- JS values
JBool(b) == [t |-> "boolean", v |-> b]
JStr(s) == [t |-> "string", v |-> s]
JNum(n) == [t |-> "number", v |-> n]
JArr(s) == [t |-> "array", v |-> s]
JObj(r) == [t |-> "object", v |-> r]
Null == [t |-> "null", v |-> "null"]
Undefined == [t |-> "undefined", v |-> "undefined"]

\* a ?? b
Coalesce(a, b) == IF a = Null \/ a = Undefined THEN b ELSE a

\* Array.prototype.includes on an array of strings
Includes(arr, s) ==
    arr.t = "array" /\ \E i \in 1..Len(arr.v) : arr.v[i] = s

\* the truthiness test of  x ? a : b
Truthy(x) == x \notin {Undefined, Null, JBool(FALSE), JStr(""), JNum(0)}

\* ------------------------------------------------ paths, interfaces
ModemPath == "/modem0"
CallPath == "/modem0/voicecall01"

IfModem == "org.ofono.Modem"
IfVoiceCall == "org.ofono.VoiceCall"
IfNetworkRegistration == "org.ofono.NetworkRegistration"
IfHandsfree == "org.ofono.Handsfree"
IfVoiceCallManager == "org.ofono.VoiceCallManager"

\* the directory object: new Ofono(bus)
RootPath == "/"
IfManager == "org.ofono.Manager"

Kinds == {"Modem", "VoiceCall", "NetworkRegistration", "Handsfree",
          "VoiceCallManager", "VoiceCallManagerLegacy"}

DependentKinds == {"NetworkRegistration", "Handsfree", "VoiceCallManager"}

\* the interface name each class passes to proxy.getInterface
Iface(kind) ==
    CASE kind = "Modem" -> IfModem
      [] kind = "VoiceCall" -> IfVoiceCall
      [] kind = "NetworkRegistration" -> IfNetworkRegistration
      [] kind = "Handsfree" -> IfHandsfree
      [] kind = "VoiceCallManager" -> IfVoiceCallManager
      [] kind = "VoiceCallManagerLegacy" -> IfVoiceCallManager
      [] kind = "Ofono" -> IfManager

\* ------------------------------------------- modelled property names
\* (the case labels of each PropertyChanged handler)
ModemProps == {"Online", "Powered", "Lockdown", "Emergency", "Name",
               "Manufacturer", "Model", "Revision", "Serial", "Interfaces",
               "Type"}
ModemMandatory == {"Online", "Powered", "Lockdown", "Interfaces", "Type"}

VoiceCallProps == {"LineIdentification", "IncomingLine", "Name", "Multiparty",
                   "State", "StartTime", "Information", "Icon", "Emergency",
                   "RemoteHeld", "RemoteMultiparty"}
VoiceCallMandatory == {"LineIdentification", "Name", "Multiparty", "State",
                       "Emergency", "RemoteHeld", "RemoteMultiparty"}

NetworkRegistrationProps == {"Mode", "Status", "LocationAreaCode", "CellId",
                             "MobileCountryCode", "MobileNetworkCode",
                             "Technology", "Name", "Strength", "BaseStation"}
NetworkRegistrationMandatory == {"Mode", "Status", "Name"}

HandsfreeProps == {"Features", "InbandRinging", "VoiceRecognition",
                   "EchoCancellingNoiseReduction", "BatteryChargeLevel",
                   "SubscriberNumbers", "DistractedDrivingReduction"}
HandsfreeMandatory == {"Features", "InbandRinging", "VoiceRecognition",
                       "BatteryChargeLevel", "SubscriberNumbers"}

VoiceCallManagerProps == {"EmergencyNumbers"}
VoiceCallManagerMandatory == {"EmergencyNumbers"}

Props(kind) ==
    CASE kind = "Modem" -> ModemProps
      [] kind = "VoiceCall" -> VoiceCallProps
      [] kind = "NetworkRegistration" -> NetworkRegistrationProps
      [] kind = "Handsfree" -> HandsfreeProps
      [] kind = "VoiceCallManager" -> VoiceCallManagerProps
      [] kind = "VoiceCallManagerLegacy" -> {}
      [] kind = "Ofono" -> {}

Mandatory(kind) ==
    CASE kind = "Modem" -> ModemMandatory
      [] kind = "VoiceCall" -> VoiceCallMandatory
      [] kind = "NetworkRegistration" -> NetworkRegistrationMandatory
      [] kind = "Handsfree" -> HandsfreeMandatory
      [] kind = "VoiceCallManager" -> VoiceCallManagerMandatory
      [] kind = "VoiceCallManagerLegacy" -> {}
      [] kind = "Ofono" -> {}

\* the properties that have a setter
Writable(kind) ==
    CASE kind = "Modem" -> {"Online", "Powered", "Lockdown"}
      [] kind = "Handsfree" -> {"VoiceRecognition",
                                "EchoCancellingNoiseReduction",
                                "DistractedDrivingReduction"}
      [] OTHER -> {}

\* ------------------------------------------------------------ enums
\* A TypeScript string enum is an object from member name to value; it has
\* no reverse mapping.  EnumIndex models  E[x as keyof typeof E].
VoiceCallState ==
    [Active |-> "active", Held |-> "held", Dialing |-> "dialing",
     Alerting |-> "alerting", Incoming |-> "incoming", Waiting |-> "waiting",
     Disconnected |-> "disconnected"]

NetworkRegistrationMode ==
    [Auto |-> "auto", AutoOnly |-> "auto-only", Manual |-> "manual"]

NetworkRegistrationStatus ==
    [Unregistered |-> "unregistered", Registered |-> "registered",
     Searching |-> "searching", Denied |-> "denied", Unknown |-> "unknown",
     Roaming |-> "roaming"]

EnumIndex(enum, x) ==
    IF x.t = "string" /\ x.v \in DOMAIN enum THEN JStr(enum[x.v]) ELSE Undefined

\* the members of an enum, as values
EnumMembers(enum) == {JStr(enum[k]) : k \in DOMAIN enum}

\* data[1].X?.value : the value of an optional entry of a raw property map
Get(raw, p) == IF p \in DOMAIN raw THEN raw[p] ELSE Undefined

constructTechnology(t) ==
    JObj([GSM |-> Includes(t, "gsm"), EDGE |-> Includes(t, "edge"),
          UMTS |-> Includes(t, "umts"), HSPA |-> Includes(t, "hspa"),
          LTE |-> Includes(t, "lte")])

constructFeatures(f) ==
    JObj([VoiceRecognition |-> Includes(f, "voice-recognition"),
          AttachVoiceTag |-> Includes(f, "attach-voice-tag"),
          EchoCancellingAndNoiseReduction |->
              Includes(f, "echo-canceling-and-noise-reduction"),
          ThreeWayCalling |-> Includes(f, "three-way-calling"),
          ReleaseAllHeld |-> Includes(f, "release-all-held"),
          ReleaseSpecifiedActiveCall |->
              Includes(f, "release-specified-active-call"),
          PrivateChat |-> Includes(f, "private-chat"),
          CreateMultiparty |-> Includes(f, "create-multiparty"),
          Transfer |-> Includes(f, "transfer"),
          HfIndicators |-> Includes(f, "hf-indicators")])

\* --------------------------------------- constructors (the snapshot)
\* Each takes the raw property map (the .value of every entry) and gives the
\* private fields the constructor assigns, keyed by the wire property name.
ModemSnapshot(raw) ==
    [p \in ModemProps |->
        IF p \in ModemMandatory THEN raw[p] ELSE Coalesce(Get(raw, p), Null)]

VoiceCallSnapshot(raw) ==
    [p \in VoiceCallProps |->
        IF p = "State" THEN EnumIndex(VoiceCallState, raw[p])
        ELSE IF p \in VoiceCallMandatory THEN raw[p]
        ELSE Get(raw, p)]

NetworkRegistrationSnapshot(raw) ==
    [p \in NetworkRegistrationProps |->
        CASE p = "Mode" -> EnumIndex(NetworkRegistrationMode, raw[p])
          [] p = "Status" -> EnumIndex(NetworkRegistrationStatus, raw[p])
          [] p = "Technology" ->
                IF Truthy(Get(raw, p))
                THEN constructTechnology(Get(raw, p)) ELSE Null
          [] p = "Name" -> raw[p]
          [] OTHER -> Coalesce(Get(raw, p), Null)]

HandsfreeSnapshot(raw) ==
    [p \in HandsfreeProps |->
        CASE p = "Features" -> constructFeatures(raw[p])
          [] p \in HandsfreeMandatory \ {"Features"} -> raw[p]
          [] OTHER -> Coalesce(Get(raw, p), Null)]

VoiceCallManagerSnapshot(raw) ==
    [p \in VoiceCallManagerProps |-> raw[p]]

Snapshot(kind, raw) ==
    CASE kind = "Modem" -> ModemSnapshot(raw)
      [] kind = "VoiceCall" -> VoiceCallSnapshot(raw)
      [] kind = "NetworkRegistration" -> NetworkRegistrationSnapshot(raw)
      [] kind = "Handsfree" -> HandsfreeSnapshot(raw)
      [] kind = "VoiceCallManager" -> VoiceCallManagerSnapshot(raw)
      [] kind = "VoiceCallManagerLegacy" -> << >>
      [] kind = "Ofono" -> << >>

\* Reading  raw.X.value  of a missing mandatory entry throws a TypeError.
Complete(kind, raw) == Mandatory(kind) \subseteq DOMAIN raw

\* The first argument of fromDBusObject as the caller passed it: a
\* [path, map] pair, a property map alone, or a path string alone.
Pair(path, raw) == [t |-> "tuple", v |-> <<path, raw>>]
MapAlone(raw) == [t |-> "object", v |-> raw]
PathAlone(path) == [t |-> "string", v |-> path]

\* fromDBusObject reads  data[0]  and  data[1].X.value .  On a pair these are
\* the path and the entries of the map.  On a map alone  data[1]  is
\* undefined and reading its first property throws; on a string  data[1]  is
\* a character, its property X is undefined and reading  .value  of it
\* throws.
DecodePair(kind, data) ==
    CASE data.t = "tuple" ->
            [threw |-> ~Complete(kind, data.v[2]), path |-> data.v[1],
             raw |-> data.v[2]]
      [] data.t = "object" -> [threw |-> TRUE, path |-> "", raw |-> << >>]
      [] data.t = "string" -> [threw |-> TRUE, path |-> "", raw |-> << >>]

\* Array.prototype.map calls fromDBusObject entry by entry: the objects of
\* the entries before the first one that throws have been constructed
FirstThrow(d) ==
    CHOOSE k \in 1..Len(d) : d[k].threw /\ \A j \in 1..(k - 1) : ~d[j].threw

\* A handler whose switch has no case for the writable properties.
ModemOnPropertyChangedReadOnly(snap, name, value) ==
    IF name \in ModemProps \ {"Online", "Powered", "Lockdown"}
    THEN [snap |-> [snap EXCEPT ![name] = value], emit |-> <<"change">>,
          threw |-> FALSE]
    ELSE [snap |-> snap, emit |-> << >>,
          threw |-> FALSE]

\* ----------------------------------- PropertyChanged handlers
\* Each gives the snapshot after the handler, the events it emits and
\* whether an exception left the handler.
ModemOnPropertyChanged(snap, name, value) ==
    IF name \in ModemProps
    THEN [snap |-> [snap EXCEPT ![name] = value], emit |-> <<"change">>,
          threw |-> FALSE]
    ELSE [snap |-> snap, emit |-> << >>,
          threw |-> FALSE]

\* A handler that rejects a value of the wrong type by throwing.
VoiceCallOnPropertyChangedStrict(snap, name, value) ==
    IF name = "State" /\ value.t # "string"
    THEN [snap |-> snap, emit |-> << >>, threw |-> TRUE]
    ELSE IF name \in VoiceCallProps
    THEN [snap |-> [snap EXCEPT ![name] = value], emit |-> <<"change">>,
          threw |-> FALSE]
    ELSE [snap |-> snap, emit |-> << >>, threw |-> FALSE]

VoiceCallOnPropertyChanged(snap, name, value) ==
    IF name = "State"
    THEN [snap |-> [snap EXCEPT ![name] = EnumIndex(VoiceCallState, value)],
          emit |-> <<"change">>,
          threw |-> FALSE]
    ELSE IF name \in VoiceCallProps
    THEN [snap |-> [snap EXCEPT ![name] = value], emit |-> <<"change">>,
          threw |-> FALSE]
    ELSE [snap |-> snap, emit |-> << >>,
          threw |-> FALSE]

\* the default case ends in  break , not  return : 'change' is emitted
NetworkRegistrationOnPropertyChanged(snap, name, value) ==
    IF name \in NetworkRegistrationProps
    THEN [snap |-> [snap EXCEPT ![name] = value], emit |-> <<"change">>,
          threw |-> FALSE]
    ELSE [snap |-> snap, emit |-> <<"change">>,
          threw |-> FALSE]

HandsfreeOnPropertyChanged(snap, name, value) ==
    IF name \in HandsfreeProps
    THEN [snap |-> [snap EXCEPT ![name] = value], emit |-> <<"change">>,
          threw |-> FALSE]
    ELSE [snap |-> snap, emit |-> << >>,
          threw |-> FALSE]

\* the handler has no  this.emit('change')
VoiceCallManagerOnPropertyChanged(snap, name, value) ==
    IF name \in VoiceCallManagerProps
    THEN [snap |-> [snap EXCEPT ![name] = value], emit |-> << >>,
          threw |-> FALSE]
    ELSE [snap |-> snap, emit |-> << >>,
          threw |-> FALSE]

\* the older class keeps no snapshot and re-emits the signal
VoiceCallManagerLegacyOnPropertyChanged(snap, name, value) ==
    [snap |-> snap, emit |-> <<"propertyChanged">>,
          threw |-> FALSE]

OnPropertyChanged(kind, snap, name, value) ==
    CASE kind = "Modem" -> ModemOnPropertyChanged(snap, name, value)
      [] kind = "VoiceCall" -> VoiceCallOnPropertyChanged(snap, name, value)
      [] kind = "NetworkRegistration" ->
            NetworkRegistrationOnPropertyChanged(snap, name, value)
      [] kind = "Handsfree" -> HandsfreeOnPropertyChanged(snap, name, value)
      [] kind = "VoiceCallManager" ->
            VoiceCallManagerOnPropertyChanged(snap, name, value)
      [] kind = "VoiceCallManagerLegacy" ->
            VoiceCallManagerLegacyOnPropertyChanged(snap, name, value)

\* ------------------------------------------------- wire value domains
\* The D-Bus signature of each property and a few values of each signature.
Signature(name) ==
    CASE name \in {"Online", "Powered", "Lockdown", "Emergency", "Multiparty",
                   "RemoteHeld", "RemoteMultiparty", "InbandRinging",
                   "VoiceRecognition", "EchoCancellingNoiseReduction",
                   "DistractedDrivingReduction"} -> "b"
      [] name \in {"Icon", "LocationAreaCode", "CellId", "Strength",
                   "BatteryChargeLevel"} -> "n"
      [] name \in {"Interfaces", "Technology", "Features", "SubscriberNumbers",
                   "EmergencyNumbers"} -> "as"
      [] name = "State" -> "state"
      [] name = "Mode" -> "mode"
      [] name = "Status" -> "status"
      [] OTHER -> "s"

WireValue(name, i) ==
    CASE Signature(name) = "b" -> JBool(i = 1)
      [] Signature(name) = "n" -> JNum(i)
      [] Signature(name) = "state" ->
            IF i = 1 THEN JStr(VoiceCallState.Active)
            ELSE JStr(VoiceCallState.Held)
      [] Signature(name) = "mode" ->
            IF i = 1 THEN JStr(NetworkRegistrationMode.Auto)
            ELSE JStr(NetworkRegistrationMode.Manual)
      [] Signature(name) = "status" ->
            IF i = 1 THEN JStr(NetworkRegistrationStatus.Registered)
            ELSE JStr(NetworkRegistrationStatus.Roaming)
      [] Signature(name) = "as" ->
            CASE name = "Interfaces" ->
                    IF i = 1 THEN JArr(<<IfVoiceCallManager>>)
                    ELSE JArr(<<IfVoiceCallManager, IfNetworkRegistration,
                                IfHandsfree>>)
              [] name = "Technology" ->
                    IF i = 1 THEN JArr(<<"gsm">>) ELSE JArr(<<"umts", "lte">>)
              [] name = "Features" ->
                    IF i = 1 THEN JArr(<<"voice-recognition">>)
                    ELSE JArr(<<"three-way-calling", "transfer">>)
              [] OTHER ->
                    IF i = 1 THEN JArr(<<"112">>) ELSE JArr(<<"112", "911">>)
      [] OTHER -> IF i = 1 THEN JStr("x") ELSE JStr("y")

WireValues(name) == {WireValue(name, i) : i \in 1..2}

\* Values a signal can carry that the property's declared type does not
\* admit: another tag, or a string outside the enum.
MalformedValues(name) ==
    CASE Signature(name) = "b" -> {JStr("yes")}
      [] Signature(name) = "n" -> {JStr("high")}
      [] Signature(name) = "as" -> {JNum(7)}
      [] Signature(name) \in {"state", "mode", "status"} ->
            {JStr("bogus"), JNum(7)}
      [] OTHER -> {JNum(7)}

\* the declared type of the field behind each property
WellFormed(name, value) ==
    CASE Signature(name) = "b" -> value.t = "boolean"
      [] Signature(name) = "n" -> value.t = "number"
      [] Signature(name) = "as" -> value.t = "array"
      [] Signature(name) = "state" -> value \in EnumMembers(VoiceCallState)
      [] Signature(name) = "mode" ->
            value \in EnumMembers(NetworkRegistrationMode)
      [] Signature(name) = "status" ->
            value \in EnumMembers(NetworkRegistrationStatus)
      [] OTHER -> value.t = "string"

\* a property name no handler has a case for
UnknownProperty == "Bogus"

\* the property names of the PropertyChanged signals the model delivers to
\* each class: a writable, an optional, an enumerated or a list property,
\* and a name the class has no case for
SignalNames(kind) ==
    CASE kind = "Modem" -> {"Online", "Name", "Interfaces", UnknownProperty}
      [] kind = "VoiceCall" -> {"State", "Name", "Icon", UnknownProperty}
      [] kind = "NetworkRegistration" ->
            {"Mode", "Technology", "Strength", UnknownProperty}
      [] kind = "Handsfree" ->
            {"VoiceRecognition", "EchoCancellingNoiseReduction", "Features",
             UnknownProperty}
      [] kind = "VoiceCallManager" -> {"EmergencyNumbers", UnknownProperty}
      [] kind = "VoiceCallManagerLegacy" ->
            {"EmergencyNumbers", UnknownProperty}

\* Raw property maps as GetModems, GetCalls and GetProperties return them:
\* one with the mandatory properties only, one with every property.
RawMaps(kind) ==
    {[p \in Mandatory(kind) |-> WireValue(p, 1)],
     [p \in Props(kind) |-> WireValue(p, 2)]}

MinimalMap(kind) == [p \in Mandatory(kind) |-> WireValue(p, 1)]
FullMap(kind) == [p \in Props(kind) |-> WireValue(p, 2)]

\* property maps that lack one mandatory property
Without(kind, q) == [p \in Mandatory(kind) \ {q} |-> WireValue(p, 1)]
PartialMaps(kind) == {Without(kind, q) : q \in Mandatory(kind)}

\* ------------------------------------------------------ connections
\* the bus handed to  new Ofono(bus)  and the one  systemBus()  creates
RootBus == "root"
SystemBus == "system"

\* ------------------------------------------------------------- RPCs
Rpc(method, path, iface, name, value) ==
    [method |-> method, path |-> path, iface |-> iface, name |-> name,
     value |-> value]

\* bus.getProxyObject('org.ofono', path)
GetProxyObject(path) == Rpc("getProxyObject", path, "", "", Undefined)

\* the action methods of each class
Actions(kind) ==
    CASE kind = "VoiceCall" -> {"deflect", "hangup", "answer"}
      [] kind = "NetworkRegistration" -> {"register", "getOperators", "scan"}
      [] kind = "VoiceCallManager" -> {"transfer", "swapCalls", "hangupAll"}
      [] OTHER -> {}

\* the remote method each action method invokes on its interface
RemoteMethod(kind, action) ==
    CASE action = "deflect" -> "Deflect"
      [] action = "hangup" -> "Hangup"
      [] action = "answer" -> "Hangup"
      [] action = "register" -> "Register"
      [] action = "getOperators" -> "GetOperators"
      [] action = "scan" -> "Scan"
      [] action = "transfer" -> "Transfer"
      [] action = "swapCalls" -> "Transfer"
      [] action = "hangupAll" -> "HangupAll"

\* ----------------------------------------------------------- mirrors
\* The object a constructor builds.  listen is the position of the
\* listenForChanges() call the constructor starts and does not await:
\* "proxy" while getProxyObject is in flight, "on" once  iface.on(...)  ran,
\* "rejected" when the lookup failed.  raw, log and events record the
\* history: the map it was built from, every setter call and delivered
\* notification, every emitted event, whether one of its signal handlers
\* threw, and (missed) the PropertyChanged signals its remote object emitted
\* while  iface.on(...)  had not run yet.  listeners counts the
\* PropertyChanged handlers registered for it.
NewMirror(kind, path, raw, bus) ==
    [kind |-> kind, path |-> path, bus |-> bus, raw |-> raw,
     snap |-> Snapshot(kind, raw),
     listen |-> "proxy", listeners |-> 0, log |-> << >>, events |-> << >>,
     threw |-> FALSE, missed |-> << >>]

\* ------------------------------------------------------------- tasks
\* One call of the public API.  pc is the position in the async body
\* ("proxy": awaiting getProxyObject, "call": awaiting the method reply,
\* "end"), settled the state of its promise (a synchronous call that
\* returned is "fulfilled", one that threw is "rejected"), error what
\* rejected it ("capability": the interface check, "proxy": the proxy
\* lookup, "remote": the method call, "type": a missing mandatory property),
\* floating whether the promise was dropped by the code instead of being
\* returned to the caller, rpcs the RPCs issued so far, ret the mirrors
\* handed to the caller, reply the listing a list call was answered with.
NewTask(op, kind, target, name, value) ==
    [op |-> op, kind |-> kind, target |-> target, name |-> name,
     value |-> value, pc |-> "proxy", settled |-> "pending", error |-> "",
     floating |-> FALSE, capable |-> TRUE, rpcs |-> << >>, ret |-> << >>,
     reply |-> << >>]

Settle(task, how, err) ==
    [task EXCEPT !.pc = "end", !.settled = how, !.error = err]

MirrorIds == 1..Len(mirrors)
TaskIds == 1..Len(tasks)

\* the argument list of a call
Args(a, b) == [t |-> "args", v |-> <<a, b>>]

\* A conversion that only tests the flag for truth.
CallerIdArgTruthy(hideCallerID) ==
    IF Truthy(hideCallerID) THEN JStr("enabled") ELSE JStr("disabled")

\* typeof hideCallerID === 'undefined' ? 'default'
\*    : hideCallerID ? 'enabled' : 'disabled'
CallerIdArg(hideCallerID) ==
    IF hideCallerID = Undefined THEN JStr("default")
    ELSE IF Truthy(hideCallerID) THEN JStr("enabled")
    ELSE JStr("disabled")

\* the path and interface a task's RPCs go to
TaskPath(task) ==
    CASE task.op = "getModems" -> "/"
      [] task.op = "fromPath" -> task.name
      [] task.op = "dial" /\ task.name # "" -> task.name
      [] OTHER -> mirrors[task.target].path

TaskIface(task) ==
    CASE task.op = "getModems" -> "org.ofono.Manager"
      [] task.op = "getCalls" -> IfVoiceCallManager
      [] task.op = "dial" /\ task.name = "" -> IfVoiceCallManager
      [] OTHER -> Iface(task.kind)

\* the method call an async body issues once it holds the interface
MethodCall(task) ==
    CASE task.op = "getModems" ->
            Rpc("GetModems", TaskPath(task), TaskIface(task), "", Undefined)
      [] task.op \in {"ofModem", "fromPath"} ->
            Rpc("GetProperties", TaskPath(task), TaskIface(task), "", Undefined)
      [] task.op = "getCalls" ->
            Rpc("GetCalls", TaskPath(task), TaskIface(task), "", Undefined)
      [] task.op = "dial" /\ task.name = "" ->
            Rpc("Dial", TaskPath(task), TaskIface(task), "",
                Args(task.value.v[1], CallerIdArg(task.value.v[2])))
      [] task.op = "dial" /\ task.name # "" ->
            Rpc("GetProperties", TaskPath(task), TaskIface(task), "", Undefined)
      [] task.op = "sendTones" ->
            Rpc("SendTones", TaskPath(task), TaskIface(task), "", task.value)
      [] task.op = "set" ->
            Rpc("SetProperty", TaskPath(task), TaskIface(task), task.name,
                task.value)
      [] task.op = "action" ->
            Rpc(RemoteMethod(task.kind, task.name), TaskPath(task),
                TaskIface(task), "", Undefined)

\* --------------------------------------------------------- the state
Init ==
    /\ mirrors = << >>
    /\ tasks = << >>
    /\ delivered = 0

\* constructions in flight: each will need a slot of  mirrors
Constructing ==
    Cardinality({t \in TaskIds : tasks[t].settled = "pending"
                    /\ tasks[t].op \in {"getModems", "ofModem", "fromPath",
                                       "getCalls", "dial"}})

\* the mirrors built so far, the directory object aside
Built == Cardinality({m \in MirrorIds : mirrors[m].kind # "Ofono"})

Room == Built + Constructing < MaxMirrors

Budget == Len(tasks) + delivered < MaxOps

ReplaceTask(t, task) == [tasks EXCEPT ![t] = task]

\* ------------------------------------------------ Ofono.getModems
GetModemsCall ==
    /\ Budget
    /\ Room
    /\ tasks' = Append(tasks,
           [NewTask("getModems", "Modem", 0, "", Undefined)
               EXCEPT !.rpcs = <<GetProxyObject("/")>>])
    /\ UNCHANGED <<mirrors, delivered>>

\* modems.map((m) => Modem.fromDBusObject(m, this.bus))
\* A reply handler that hands the mirrors out in reverse order.
GetModemsReplyReversed(t, listing) ==
    /\ t \in TaskIds
    /\ tasks[t].op = "getModems"
    /\ tasks[t].pc = "call"
    /\ Built + Len(listing) <= MaxMirrors
    /\ mirrors' = mirrors \o
           [i \in 1..Len(listing) |->
               NewMirror("Modem", listing[i][1], listing[i][2], RootBus)]
    /\ tasks' = ReplaceTask(t,
           [Settle(tasks[t], "fulfilled", "") EXCEPT
               !.reply = listing,
               !.ret = [i \in 1..Len(listing) |->
                           Len(mirrors) + Len(listing) + 1 - i]])
    /\ UNCHANGED delivered

\* listing is the reply: a sequence of <<path, map>> pairs
GetModemsReply(t, listing) ==
    /\ t \in TaskIds
    /\ tasks[t].op = "getModems"
    /\ tasks[t].pc = "call"
    /\ Built + Len(listing) <= MaxMirrors
    /\ LET d == [i \in 1..Len(listing) |->
                    DecodePair("Modem", Pair(listing[i][1], listing[i][2]))]
       IN  IF \A i \in 1..Len(listing) : ~d[i].threw
           THEN /\ mirrors' = mirrors \o
                       [i \in 1..Len(listing) |->
                           NewMirror("Modem", d[i].path, d[i].raw, RootBus)]
                /\ tasks' = ReplaceTask(t,
                       [Settle(tasks[t], "fulfilled", "") EXCEPT
                           !.reply = listing,
                           !.ret = [i \in 1..Len(listing) |->
                                       Len(mirrors) + i]])
           ELSE /\ mirrors' = mirrors \o
                       [i \in 1..(FirstThrow(d) - 1) |->
                           NewMirror("Modem", d[i].path, d[i].raw, RootBus)]
                /\ tasks' = ReplaceTask(t,
                       [Settle(tasks[t], "rejected", "type") EXCEPT
                           !.reply = listing])
    /\ UNCHANGED delivered

\* ------------------------------------- the capability check of ofModem
\* A check against the interface list the modem was constructed with.
CapableWhenBuilt(modem, kind) == Includes(modem.raw["Interfaces"], Iface(kind))

\* modem.interfaces.indexOf(name) !== -1
Capable(modem, kind) == Includes(modem.snap["Interfaces"], Iface(kind))

\* ofModem without the check of the interface list.
OfModemStartUnchecked(modem, m, kind) ==
    [NewTask("ofModem", kind, m, "", Undefined)
        EXCEPT !.rpcs = <<GetProxyObject(modem.path)>>]

\* ofModem up to its first await: the check, then the proxy lookup
OfModemStart(modem, m, kind) ==
    IF Capable(modem, kind)
    THEN [NewTask("ofModem", kind, m, "", Undefined)
             EXCEPT !.rpcs = <<GetProxyObject(modem.path)>>]
    ELSE Settle(NewTask("ofModem", kind, m, "", Undefined),
                "rejected", "capability")

\* capable records, for the history, what the interface list held at the call
OfModem(m, kind) ==
    /\ Budget
    /\ Room
    /\ m \in MirrorIds
    /\ mirrors[m].kind = "Modem"
    /\ tasks' = Append(tasks,
           [OfModemStart(mirrors[m], m, kind)
               EXCEPT !.capable = Capable(mirrors[m], kind)])
    /\ UNCHANGED <<mirrors, delivered>>

\* new VoiceCallManager(modem) of the older class: the check, then the
\* fields and listenForChanges()
NewVoiceCallManagerStart(modem, m) ==
    IF Capable(modem, "VoiceCallManagerLegacy")
    THEN [Settle(NewTask("new", "VoiceCallManagerLegacy", m, "", Undefined),
                 "fulfilled", "") EXCEPT !.ret = <<Len(mirrors) + 1>>]
    ELSE Settle(NewTask("new", "VoiceCallManagerLegacy", m, "", Undefined),
                "rejected", "capability")

NewVoiceCallManager(m) ==
    /\ Budget
    /\ Room
    /\ m \in MirrorIds
    /\ mirrors[m].kind = "Modem"
    /\ tasks' = Append(tasks,
           [NewVoiceCallManagerStart(mirrors[m], m)
               EXCEPT !.capable = Capable(mirrors[m], "VoiceCallManagerLegacy")])
    /\ mirrors' =
          IF NewVoiceCallManagerStart(mirrors[m], m).settled = "fulfilled"
          THEN Append(mirrors, NewMirror("VoiceCallManagerLegacy",
                                         mirrors[m].path, << >>,
                                         mirrors[m].bus))
          ELSE mirrors
    /\ UNCHANGED delivered

\* ------------------------------------------------ VoiceCall.fromPath
VoiceCallFromPath(path) ==
    /\ Budget
    /\ Room
    /\ tasks' = Append(tasks,
           [NewTask("fromPath", "VoiceCall", 0, path, Undefined)
               EXCEPT !.rpcs = <<GetProxyObject(path)>>])
    /\ UNCHANGED <<mirrors, delivered>>

\* the reply of GetProperties: the constructor runs and the promise resolves
GetPropertiesReply(t, raw) ==
    /\ t \in TaskIds
    /\ tasks[t].op \in {"ofModem", "fromPath", "dial"}
    /\ tasks[t].op = "dial" => tasks[t].name # ""
    /\ tasks[t].pc = "call"
    /\ IF Complete(tasks[t].kind, raw)
       THEN /\ mirrors' = Append(mirrors,
                   NewMirror(tasks[t].kind, TaskPath(tasks[t]), raw,
                             CASE tasks[t].op = "ofModem" ->
                                     mirrors[tasks[t].target].bus
                               [] tasks[t].op = "dial" -> SystemBus
                               [] OTHER -> RootBus))
            /\ tasks' = ReplaceTask(t,
                   [Settle(tasks[t], "fulfilled", "") EXCEPT
                       !.reply = @ \o << <<TaskPath(tasks[t]), raw>> >>,
                       !.ret = <<Len(mirrors) + 1>>])
       ELSE /\ mirrors' = mirrors
            /\ tasks' = ReplaceTask(t,
                   [Settle(tasks[t], "rejected", "type") EXCEPT
                       !.reply = @ \o << <<TaskPath(tasks[t]), raw>> >>])
    /\ UNCHANGED delivered

\* ------------------------------------------- VoiceCall.fromDBusObject
\* A factory that constructs the object first and fills it afterwards.
FromDBusObjectEager(path, raw) ==
    /\ Budget
    /\ Room
    /\ mirrors' = Append(mirrors,
           [NewMirror("VoiceCall", path, FullMap("VoiceCall"), RootBus)
               EXCEPT !.raw = raw])
    /\ tasks' = Append(tasks,
           [Settle(NewTask("fromDBusObject", "VoiceCall", 0, path, Undefined),
                   IF Complete("VoiceCall", raw) THEN "fulfilled"
                   ELSE "rejected",
                   IF Complete("VoiceCall", raw) THEN "" ELSE "type")
               EXCEPT !.reply = << <<path, raw>> >>,
                      !.ret = IF Complete("VoiceCall", raw)
                              THEN <<Len(mirrors) + 1>> ELSE << >>])
    /\ UNCHANGED delivered

\* the arguments of  new VoiceCall(...)  are evaluated before the
\* constructor runs
FromDBusObject(path, raw) ==
    /\ Budget
    /\ Room
    /\ IF DecodePair("VoiceCall", Pair(path, raw)).threw
       THEN /\ mirrors' = mirrors
            /\ tasks' = Append(tasks,
                   [Settle(NewTask("fromDBusObject", "VoiceCall", 0, path,
                                   Undefined), "rejected", "type")
                       EXCEPT !.reply = << <<path, raw>> >>])
       ELSE /\ mirrors' = Append(mirrors,
                   NewMirror("VoiceCall", path, raw, RootBus))
            /\ tasks' = Append(tasks,
                   [Settle(NewTask("fromDBusObject", "VoiceCall", 0, path,
                                   Undefined), "fulfilled", "")
                       EXCEPT !.reply = << <<path, raw>> >>,
                              !.ret = <<Len(mirrors) + 1>>])
    /\ UNCHANGED delivered

\* A setter that leaves the field to the next notification.
SetterAssignDeferred(snap, name, value) == snap

\* ------------------------------------------------- property setters
\* set online(v) { this._online = v; this.setProperty('Online', 'b', v) }
SetterAssign(snap, name, value) == [snap EXCEPT ![name] = value]

Setter(m, name, value) ==
    /\ Budget
    /\ m \in MirrorIds
    /\ name \in Writable(mirrors[m].kind)
    /\ value \in WireValues(name)
    /\ mirrors' = [mirrors EXCEPT
           ![m].snap = SetterAssign(mirrors[m].snap, name, value),
           ![m].log = Append(mirrors[m].log,
                             [src |-> "set", name |-> name, value |-> value])]
    /\ tasks' = Append(tasks,
           [NewTask("set", mirrors[m].kind, m, name, value)
               EXCEPT !.floating = TRUE,
                      !.rpcs = <<GetProxyObject(mirrors[m].path)>>])
    /\ UNCHANGED delivered

\* An action method that clears the fields before the remote has answered.
ActionCallOptimistic(m, action) ==
    /\ Budget
    /\ m \in MirrorIds
    /\ action \in Actions(mirrors[m].kind)
    /\ tasks' = Append(tasks,
           [NewTask("action", mirrors[m].kind, m, action, Undefined)
               EXCEPT !.rpcs = <<GetProxyObject(mirrors[m].path)>>])
    /\ mirrors' = [mirrors EXCEPT
           ![m].snap = [p \in DOMAIN mirrors[m].snap |-> Undefined]]
    /\ UNCHANGED delivered

\* ---------------------------------------------------- action methods
ActionCall(m, action) ==
    /\ Budget
    /\ m \in MirrorIds
    /\ action \in Actions(mirrors[m].kind)
    /\ tasks' = Append(tasks,
           [NewTask("action", mirrors[m].kind, m, action, Undefined)
               EXCEPT !.rpcs = <<GetProxyObject(mirrors[m].path)>>])
    /\ UNCHANGED <<mirrors, delivered>>

\* ------------------------------------------- steps of an async body
\* A getInterface that registers the PropertyChanged handler on every
\* interface object it hands out.
ProxyResolvesSubscribing(t) ==
    /\ t \in TaskIds
    /\ tasks[t].pc = "proxy"
    /\ tasks' = ReplaceTask(t,
           [tasks[t] EXCEPT !.pc = "call",
                            !.rpcs = Append(@, MethodCall(tasks[t]))])
    /\ mirrors' = IF tasks[t].target \in MirrorIds
                  THEN [mirrors EXCEPT ![tasks[t].target].listeners = @ + 1]
                  ELSE mirrors
    /\ UNCHANGED delivered

\* getProxyObject resolved: getInterface, then the method call is issued
ProxyResolves(t) ==
    /\ t \in TaskIds
    /\ tasks[t].pc = "proxy"
    /\ tasks' = ReplaceTask(t,
           [tasks[t] EXCEPT !.pc = "call",
                            !.rpcs = Append(@, MethodCall(tasks[t]))])
    /\ UNCHANGED <<mirrors, delivered>>

\* getProxyObject rejected, or getInterface threw
ProxyRejects(t) ==
    /\ t \in TaskIds
    /\ tasks[t].pc = "proxy"
    /\ tasks' = ReplaceTask(t, Settle(tasks[t], "rejected", "proxy"))
    /\ UNCHANGED <<mirrors, delivered>>

\* the method call was answered with an error
CallRejects(t) ==
    /\ t \in TaskIds
    /\ tasks[t].pc = "call"
    /\ tasks' = ReplaceTask(t, Settle(tasks[t], "rejected", "remote"))
    /\ UNCHANGED <<mirrors, delivered>>

\* SetProperty or an action's method returned
CallReturns(t) ==
    /\ t \in TaskIds
    /\ tasks[t].op \in {"set", "action", "sendTones"}
    /\ tasks[t].pc = "call"
    /\ tasks' = ReplaceTask(t, Settle(tasks[t], "fulfilled", ""))
    /\ UNCHANGED <<mirrors, delivered>>

\* ------------------------------------------------ listenForChanges
\* A subscription that replays what was emitted before it was registered.
ListenResolvesReplaying(m) ==
    /\ m \in MirrorIds
    /\ mirrors[m].listen = "proxy"
    /\ mirrors' = [mirrors EXCEPT
           ![m].listen = "on",
           ![m].listeners = @ + 1,
           ![m].snap = [p \in DOMAIN @ |->
               IF \E i \in 1..Len(mirrors[m].missed) :
                     mirrors[m].missed[i].name = p
               THEN mirrors[m].missed[
                       CHOOSE i \in 1..Len(mirrors[m].missed) :
                          /\ mirrors[m].missed[i].name = p
                          /\ \A j \in (i + 1)..Len(mirrors[m].missed) :
                                mirrors[m].missed[j].name # p].value
               ELSE @[p]]]
    /\ UNCHANGED <<tasks, delivered>>

\* its getProxyObject resolved:  iface.on('PropertyChanged', ...)  runs
ListenResolves(m) ==
    /\ m \in MirrorIds
    /\ mirrors[m].listen = "proxy"
    /\ mirrors' = [mirrors EXCEPT ![m].listen = "on", ![m].listeners = @ + 1]
    /\ UNCHANGED <<tasks, delivered>>

\* its getProxyObject rejected: nothing awaits or catches the promise
ListenRejects(m) ==
    /\ m \in MirrorIds
    /\ mirrors[m].listen = "proxy"
    /\ mirrors' = [mirrors EXCEPT ![m].listen = "rejected"]
    /\ UNCHANGED <<tasks, delivered>>

\* ------------------------------------------- PropertyChanged signal
\* The handler of one mirror runs on (name, value): the snapshot it leaves,
\* and the events it emits, each tagged with the log entry that caused it.
Deliver(mir, name, value) ==
    LET r == OnPropertyChanged(mir.kind, mir.snap, name, value)
        log2 == Append(mir.log,
                       [src |-> "notify", name |-> name, value |-> value])
    IN  [mir EXCEPT
            !.snap = r.snap,
            !.log = log2,
            !.threw = @ \/ r.threw,
            !.events = @ \o
                [i \in 1..Len(r.emit) |->
                    [type |-> r.emit[i], cause |-> Len(log2)]]]

\* the bus calls every handler registered for the signal, one after another
RECURSIVE Run(_, _, _, _)
Run(mir, name, value, k) ==
    IF k = 0 THEN mir ELSE Run(Deliver(mir, name, value), name, value, k - 1)

\* A subscription matched on the object path alone.
ListeningByPath(m, path, iface) ==
    /\ mirrors[m].listen = "on"
    /\ mirrors[m].path = path

\* iface.on(...) ran on the proxy interface of (path, iface): the match rule
\* of the subscription names both
Listening(m, path, iface) ==
    /\ mirrors[m].listen = "on"
    /\ mirrors[m].path = path
    /\ Iface(mirrors[m].kind) = iface

\* the remote object at  path  emits PropertyChanged(name, value) on  iface :
\* the bus runs the handler of every mirror subscribed to it
PropertyChanged(path, iface, name, value) ==
    /\ Budget
    /\ \E m \in MirrorIds : Listening(m, path, iface)
    /\ mirrors' = [m \in MirrorIds |->
           IF Listening(m, path, iface)
           THEN Run(mirrors[m], name, value, mirrors[m].listeners)
           ELSE mirrors[m]]
    /\ delivered' = delivered + 1
    /\ UNCHANGED tasks

\* listenForChanges() of m is still awaiting the proxy of (path, iface)
Subscribing(m, path, iface) ==
    /\ mirrors[m].listen = "proxy"
    /\ mirrors[m].path = path
    /\ Iface(mirrors[m].kind) = iface

\* the remote object emits PropertyChanged(name, value) while no handler is
\* registered for it: no code of any mirror runs
Unheard(path, iface, name, value) ==
    /\ Budget
    /\ \E m \in MirrorIds : Subscribing(m, path, iface)
    /\ \A m \in MirrorIds : ~Listening(m, path, iface)
    /\ mirrors' = [m \in MirrorIds |->
           IF Subscribing(m, path, iface)
           THEN [mirrors[m] EXCEPT
                    !.missed = Append(@, [name |-> name, value |-> value])]
           ELSE mirrors[m]]
    /\ delivered' = delivered + 1
    /\ UNCHANGED tasks

SignalSources ==
    {<<mirrors[m].path, mirrors[m].kind>> : m \in MirrorIds}

\* --------------------------------------- VoiceCallManager.getCalls
GetCallsCall(m) ==
    /\ Budget
    /\ Room
    /\ m \in MirrorIds
    /\ mirrors[m].kind = "VoiceCallManager"
    /\ tasks' = Append(tasks,
           [NewTask("getCalls", "VoiceCall", m, "", Undefined)
               EXCEPT !.rpcs = <<GetProxyObject(mirrors[m].path)>>])
    /\ UNCHANGED <<mirrors, delivered>>

\* calls.map((c) => VoiceCall.fromDBusObject(c, this.bus))
GetCallsReply(t, listing) ==
    /\ t \in TaskIds
    /\ tasks[t].op = "getCalls"
    /\ tasks[t].pc = "call"
    /\ Built + Len(listing) <= MaxMirrors
    /\ LET d == [i \in 1..Len(listing) |->
                    DecodePair("VoiceCall",
                               Pair(listing[i][1], listing[i][2]))]
       IN  IF \A i \in 1..Len(listing) : ~d[i].threw
           THEN /\ mirrors' = mirrors \o
                       [i \in 1..Len(listing) |->
                           NewMirror("VoiceCall", d[i].path, d[i].raw,
                                     mirrors[tasks[t].target].bus)]
                /\ tasks' = ReplaceTask(t,
                       [Settle(tasks[t], "fulfilled", "") EXCEPT
                           !.reply = listing,
                           !.ret = [i \in 1..Len(listing) |->
                                       Len(mirrors) + i]])
           ELSE /\ mirrors' = mirrors \o
                       [i \in 1..(FirstThrow(d) - 1) |->
                           NewMirror("VoiceCall", d[i].path, d[i].raw,
                                     mirrors[tasks[t].target].bus)]
                /\ tasks' = ReplaceTask(t,
                       [Settle(tasks[t], "rejected", "type") EXCEPT
                           !.reply = listing])
    /\ UNCHANGED delivered

\* ------------------------------------------- VoiceCallManager.dial
\* value holds the arguments (hideCallerID is undefined when omitted); name
\* is "" while the Dial call is awaited, then the path it returned; the body
\* goes on with  VoiceCall.fromPath(path) , whose second argument defaults to
\* systemBus()
DialCall(m, number, hideCallerID) ==
    /\ Budget
    /\ Room
    /\ m \in MirrorIds
    /\ mirrors[m].kind = "VoiceCallManager"
    /\ tasks' = Append(tasks,
           [NewTask("dial", "VoiceCall", m, "",
                    Args(JStr(number), hideCallerID))
               EXCEPT !.rpcs = <<GetProxyObject(mirrors[m].path)>>])
    /\ UNCHANGED <<mirrors, delivered>>

DialReturns(t, path) ==
    /\ t \in TaskIds
    /\ tasks[t].op = "dial"
    /\ tasks[t].pc = "call"
    /\ tasks[t].name = ""
    /\ tasks' = ReplaceTask(t,
           [tasks[t] EXCEPT !.name = path, !.pc = "proxy",
                            !.reply = <<path>>,
                            !.rpcs = Append(@, GetProxyObject(path))])
    /\ UNCHANGED <<mirrors, delivered>>

\* ------------------------------------ child-added, child-removed
\* Each handler gives the listening object after it ran and the mirrors it
\* built.  held is history: the mirrors of the removed path the program
\* holds when the signal arrives.
\* (path, modem) => this.emit('add', path, Modem.fromDBusObject(modem))
OnModemAdded(mir, path, props, id) ==
    LET d == DecodePair("Modem", MapAlone(props))
        log2 == Append(mir.log, [src |-> "notify", name |-> "ModemAdded",
                                 value |-> JStr(path), props |-> props])
    IN  IF d.threw
        THEN [mir |-> [mir EXCEPT !.log = log2, !.threw = TRUE],
              built |-> << >>]
        ELSE [mir |-> [mir EXCEPT
                          !.log = log2,
                          !.events = Append(@,
                              [type |-> "add", cause |-> Len(log2),
                               path |-> path, children |-> {id}])],
              built |-> <<NewMirror("Modem", d.path, d.raw, SystemBus)>>]

\* (path, props) => this.emit('callAdded', VoiceCall.fromDBusObject(path, props))
OnCallAdded(mir, path, props, id) ==
    LET d == DecodePair("VoiceCall", PathAlone(path))
        log2 == Append(mir.log, [src |-> "notify", name |-> "CallAdded",
                                 value |-> JStr(path), props |-> props])
    IN  IF d.threw
        THEN [mir |-> [mir EXCEPT !.log = log2, !.threw = TRUE],
              built |-> << >>]
        ELSE [mir |-> [mir EXCEPT
                          !.log = log2,
                          !.events = Append(@,
                              [type |-> "callAdded", cause |-> Len(log2),
                               path |-> d.path, children |-> {id}])],
              built |-> <<NewMirror("VoiceCall", d.path, d.raw, "props")>>]

\* A removal handler that forgets to emit.
OnCallRemovedSilent(mir, path, held) ==
    [mir EXCEPT !.log = Append(@, [src |-> "notify", name |-> "CallRemoved",
                                   value |-> JStr(path), props |-> << >>])]

\* (path) => this.emit('remove', path)
OnModemRemoved(mir, path, held) ==
    LET log2 == Append(mir.log, [src |-> "notify", name |-> "ModemRemoved",
                                 value |-> JStr(path), props |-> << >>])
    IN  [mir EXCEPT !.log = log2,
                    !.events = Append(@, [type |-> "remove",
                                          cause |-> Len(log2), path |-> path,
                                          children |-> held])]

\* (path) => this.emit('callRemoved', path)
OnCallRemoved(mir, path, held) ==
    LET log2 == Append(mir.log, [src |-> "notify", name |-> "CallRemoved",
                                 value |-> JStr(path), props |-> << >>])
    IN  [mir EXCEPT !.log = log2,
                    !.events = Append(@, [type |-> "callRemoved",
                                          cause |-> Len(log2), path |-> path,
                                          children |-> held])]

Held(kind, path) ==
    {c \in MirrorIds : mirrors[c].kind = kind /\ mirrors[c].path = path}

\* org.ofono.Manager emits ModemAdded(path, properties)
ModemAdded(path, props) ==
    /\ Budget
    /\ \E m \in MirrorIds :
          /\ Listening(m, RootPath, IfManager)
          /\ LET r == OnModemAdded(mirrors[m], path, props, Len(mirrors) + 1)
             IN  /\ r.built = << >> \/ Room
                 /\ mirrors' = [mirrors EXCEPT ![m] = r.mir] \o r.built
    /\ delivered' = delivered + 1
    /\ UNCHANGED tasks

\* org.ofono.Manager emits ModemRemoved(path)
ModemRemoved(path) ==
    /\ Budget
    /\ \E m \in MirrorIds : Listening(m, RootPath, IfManager)
    /\ mirrors' = [m \in MirrorIds |->
           IF Listening(m, RootPath, IfManager)
           THEN OnModemRemoved(mirrors[m], path, Held("Modem", path)) ELSE mirrors[m]]
    /\ delivered' = delivered + 1
    /\ UNCHANGED tasks

\* the VoiceCallManager interface of the modem at  mpath  emits
\* CallAdded(path, properties)
CallAdded(mpath, path, props) ==
    /\ Budget
    /\ \E m \in MirrorIds :
          /\ Listening(m, mpath, IfVoiceCallManager)
          /\ mirrors[m].kind = "VoiceCallManager"
          /\ LET r == OnCallAdded(mirrors[m], path, props, Len(mirrors) + 1)
             IN  /\ r.built = << >> \/ Room
                 /\ mirrors' = [mirrors EXCEPT ![m] = r.mir] \o r.built
    /\ delivered' = delivered + 1
    /\ UNCHANGED tasks

\* ... emits CallRemoved(path)
CallRemoved(mpath, path) ==
    /\ Budget
    /\ \E m \in MirrorIds :
          Listening(m, mpath, IfVoiceCallManager)
             /\ mirrors[m].kind = "VoiceCallManager"
    /\ mirrors' = [m \in MirrorIds |->
           IF Listening(m, mpath, IfVoiceCallManager)
                 /\ mirrors[m].kind = "VoiceCallManager"
           THEN OnCallRemoved(mirrors[m], path, Held("VoiceCall", path)) ELSE mirrors[m]]
    /\ delivered' = delivered + 1
    /\ UNCHANGED tasks

\* --------------------------------------- VoiceCallManager.sendTones
\* the characters of the tone strings the model passes
Chars(str) ==
    CASE str = "" -> << >>
      [] str = "0" -> <<"0">>
      [] str = "19" -> <<"1", "9">>
      [] str = "aD" -> <<"a", "D">>
      [] str = "*#" -> <<"*", "#">>
      [] str = "1e" -> <<"1", "e">>
      [] str = "E" -> <<"E">>
      [] str = "+1" -> <<"+", "1">>
      [] str = "1 " -> <<"1", " ">>

\* the character class  [0-9a-d*#]
ToneClass ==
    {"0", "1", "2", "3", "4", "5", "6", "7", "8", "9", "a", "b", "c", "d",
     "*", "#"}

\* the canonical form two characters are compared in under the  i  flag
Canonical(ch) ==
    CASE ch = "a" -> "A"
      [] ch = "b" -> "B"
      [] ch = "c" -> "C"
      [] ch = "d" -> "D"
      [] ch = "e" -> "E"
      [] OTHER -> ch

\* A test without the  i  flag.
TonesValidCaseSensitive(chars) ==
    \A i \in 1..Len(chars) : chars[i] \in ToneClass

\* /^[0-9a-d*#]*$/i.test(tones)
TonesValid(chars) ==
    \A i \in 1..Len(chars) :
        \E c \in ToneClass : Canonical(chars[i]) = Canonical(c)

\* sendTones up to its first await: the test, then the proxy lookup
SendTonesStart(mir, m, tones) ==
    IF TonesValid(Chars(tones))
    THEN [NewTask("sendTones", mir.kind, m, "", JStr(tones))
             EXCEPT !.rpcs = <<GetProxyObject(mir.path)>>]
    ELSE Settle(NewTask("sendTones", mir.kind, m, "", JStr(tones)),
                "rejected", "invalid")

SendTones(m, tones) ==
    /\ Budget
    /\ m \in MirrorIds
    /\ mirrors[m].kind \in {"VoiceCallManager", "VoiceCallManagerLegacy"}
    /\ tasks' = Append(tasks, SendTonesStart(mirrors[m], m, tones))
    /\ UNCHANGED <<mirrors, delivered>>

\* ------------------------------------------ entity-specific signals
\* the signals other than PropertyChanged a class registers a handler for
EntitySignals(kind) ==
    CASE kind = "VoiceCall" -> {"DisconnectReason"}
      [] kind \in {"VoiceCallManager", "VoiceCallManagerLegacy"} ->
            {"BarringActive", "Forwarded"}
      [] OTHER -> {}

\* the event name each of these handlers passes to  this.emit
EventKind(signal) ==
    CASE signal = "DisconnectReason" -> "disconnectReason"
      [] signal = "BarringActive" -> "barringActive"
      [] signal = "Forwarded" -> "forwarded"

\* the arguments oFono sends with each signal
SignalArgs(signal) ==
    CASE signal = "DisconnectReason" -> {JStr("local"), JStr("remote")}
      [] signal = "BarringActive" -> {JStr("local"), JStr("remote")}
      [] signal = "Forwarded" -> {JStr("incoming"), JStr("outgoing")}

\* A handler that folds the signal into the generic change event.
OnEntitySignalFolded(mir, signal, arg) ==
    LET log2 == Append(mir.log,
                       [src |-> "signal", name |-> signal, value |-> arg])
    IN  [mir EXCEPT
            !.log = log2,
            !.events = Append(@, [type |-> "change", cause |-> Len(log2)])]

\* (reason) => this.emit('disconnectReason', reason)
OnEntitySignal(mir, signal, arg) ==
    LET log2 == Append(mir.log,
                       [src |-> "signal", name |-> signal, value |-> arg])
    IN  [mir EXCEPT
            !.log = log2,
            !.events = Append(@, [type |-> EventKind(signal),
                                  cause |-> Len(log2), arg |-> arg])]

Handles(m, path, iface, signal) ==
    Listening(m, path, iface) /\ signal \in EntitySignals(mirrors[m].kind)

\* the remote object at  path  emits  signal(arg)  on  iface
EntitySignal(path, iface, signal, arg) ==
    /\ Budget
    /\ \E m \in MirrorIds : Handles(m, path, iface, signal)
    /\ mirrors' = [m \in MirrorIds |->
           IF Handles(m, path, iface, signal)
           THEN OnEntitySignal(mirrors[m], signal, arg) ELSE mirrors[m]]
    /\ delivered' = delivered + 1
    /\ UNCHANGED tasks

\* ----------------------------------------------------- specifications
\* SpecBuild: the construction paths, from a program that holds no mirror.
NextBuild ==
    \/ GetModemsCall
    \/ \E t \in TaskIds : \E r \in RawMaps("Modem") :
          GetModemsReply(t, << <<ModemPath, r>> >>)
    \/ \E m \in MirrorIds : \E k \in DependentKinds : OfModem(m, k)
    \/ \E m \in MirrorIds : NewVoiceCallManager(m)
    \/ VoiceCallFromPath(CallPath)
    \/ \E t \in TaskIds : \E r \in RawMaps(tasks[t].kind) :
          GetPropertiesReply(t, r)
    \/ \E r \in RawMaps("VoiceCall") : FromDBusObject(CallPath, r)
    \/ \E t \in TaskIds : ProxyResolves(t)
    \/ \E t \in TaskIds : ProxyRejects(t)
    \/ \E t \in TaskIds : CallRejects(t)
    \/ \E m \in MirrorIds : ListenResolves(m)
    \/ \E m \in MirrorIds : ListenRejects(m)

SpecBuild == Init /\ [][NextBuild]_vars

\* SpecLive: one mirror of any class, from the moment its constructor
\* returned it: setters, action methods and PropertyChanged signals.
PathOf(kind) == IF kind = "VoiceCall" THEN CallPath ELSE ModemPath

InitLive ==
    /\ \E kind \in Kinds :
          \E raw \in (IF kind = "VoiceCallManagerLegacy" THEN {<< >>}
                      ELSE RawMaps(kind)) :
             mirrors = <<NewMirror(kind, PathOf(kind), raw, RootBus)>>
    /\ tasks = << >>
    /\ delivered = 0

NextLive ==
    \/ \E m \in MirrorIds : \E n \in Writable(mirrors[m].kind) :
          \E v \in WireValues(n) : Setter(m, n, v)
    \/ \E m \in MirrorIds : \E a \in Actions(mirrors[m].kind) :
          ActionCall(m, a)
    \/ \E t \in TaskIds : ProxyResolves(t)
    \/ \E t \in TaskIds : ProxyRejects(t)
    \/ \E t \in TaskIds : CallRejects(t)
    \/ \E t \in TaskIds : CallReturns(t)
    \/ \E m \in MirrorIds : ListenResolves(m)
    \/ \E m \in MirrorIds : ListenRejects(m)
    \/ \E s \in SignalSources : \E n \in SignalNames(s[2]) :
          \E v \in WireValues(n) : PropertyChanged(s[1], Iface(s[2]), n, v)

SpecLive == InitLive /\ [][NextLive]_vars

\* SpecWire: one mirror of any class and the PropertyChanged signals of its
\* modelled properties, well-formed or not.
NextWire ==
    \/ \E m \in MirrorIds : ListenResolves(m)
    \/ \E m \in MirrorIds : ListenRejects(m)
    \/ \E s \in SignalSources : \E n \in SignalNames(s[2]) \ {UnknownProperty} :
          \E v \in WireValues(n) \cup MalformedValues(n) :
             PropertyChanged(s[1], Iface(s[2]), n, v)

SpecWire == InitLive /\ [][NextWire]_vars

\* SpecCapability: a modem, with or without a dependent object already built
\* from it: Interfaces notifications, ofModem calls, and the dependent
\* objects' own signals and action methods.
InitCapability ==
    /\ \E raw \in RawMaps("Modem") :
          \/ mirrors = <<NewMirror("Modem", ModemPath, raw, RootBus)>>
          \/ \E kind \in DependentKinds : \E r \in RawMaps(kind) :
                /\ Includes(raw["Interfaces"], Iface(kind))
                /\ mirrors = <<NewMirror("Modem", ModemPath, raw, RootBus),
                               NewMirror(kind, ModemPath, r, RootBus)>>
    /\ tasks = << >>
    /\ delivered = 0

\* one signal of each dependent class, one action method of each that has any
DependentSignals == {"Strength", "EmergencyNumbers", "VoiceRecognition"}
DependentActions == {"scan", "hangupAll"}

NextCapability ==
    \/ \E m \in MirrorIds : \E k \in DependentKinds : OfModem(m, k)
    \/ \E t \in TaskIds : \E r \in RawMaps(tasks[t].kind) :
          GetPropertiesReply(t, r)
    \/ \E m \in MirrorIds :
          \E a \in Actions(mirrors[m].kind) \cap DependentActions :
             ActionCall(m, a)
    \/ \E t \in TaskIds : ProxyResolves(t)
    \/ \E t \in TaskIds : ProxyRejects(t)
    \/ \E t \in TaskIds : CallRejects(t)
    \/ \E t \in TaskIds : CallReturns(t)
    \/ \E m \in MirrorIds : ListenResolves(m)
    \/ \E m \in MirrorIds : ListenRejects(m)
    \/ \E v \in WireValues("Interfaces") :
          PropertyChanged(ModemPath, IfModem, "Interfaces", v)
    \/ \E k \in DependentKinds : \E n \in SignalNames(k) \cap DependentSignals :
          \E v \in WireValues(n) : PropertyChanged(ModemPath, Iface(k), n, v)

SpecCapability == InitCapability /\ [][NextCapability]_vars

\* SpecRouter: the directory object and a VoiceCallManager, with or without
\* a call already fetched from it: the list calls, dial, and the signals
\* that announce and retire children.
ModemPath2 == "/modem1"

\* the listings of <<path, map>> pairs the list calls are answered with:
\* none, one, and two in either order
ModemListings ==
    LET a == <<ModemPath, MinimalMap("Modem")>>
        b == <<ModemPath2, FullMap("Modem")>>
    IN  {<< >>, <<a>>, <<a, b>>, <<b, a>>}

CallListings == {<< >>, << <<CallPath, FullMap("VoiceCall")>> >>}

NewOfono(bus) == NewMirror("Ofono", RootPath, << >>, bus)

InitRouter ==
    /\ \/ mirrors = <<NewOfono(RootBus)>>
       \/ mirrors = <<NewOfono(RootBus),
                      NewMirror("VoiceCallManager", ModemPath,
                                FullMap("VoiceCallManager"), RootBus)>>
       \/ mirrors = <<NewOfono(RootBus),
                      NewMirror("VoiceCallManager", ModemPath,
                                FullMap("VoiceCallManager"), RootBus),
                      NewMirror("VoiceCall", CallPath, FullMap("VoiceCall"),
                                RootBus)>>
    /\ tasks = << >>
    /\ delivered = 0

NextRouter ==
    \/ GetModemsCall
    \/ \E t \in TaskIds : \E l \in ModemListings : GetModemsReply(t, l)
    \/ \E m \in MirrorIds : GetCallsCall(m)
    \/ \E t \in TaskIds : \E l \in CallListings : GetCallsReply(t, l)
    \/ \E m \in MirrorIds : DialCall(m, "112", Undefined)
    \/ \E t \in TaskIds : DialReturns(t, CallPath)
    \/ \E t \in TaskIds : GetPropertiesReply(t, FullMap(tasks[t].kind))
    \/ \E t \in TaskIds : ProxyResolves(t)
    \/ \E t \in TaskIds : CallRejects(t)
    \/ \E m \in MirrorIds : ListenResolves(m)
    \/ \E m \in MirrorIds : ListenRejects(m)
    \/ ModemAdded(ModemPath, FullMap("Modem"))
    \/ ModemRemoved(ModemPath)
    \/ CallAdded(ModemPath, CallPath, FullMap("VoiceCall"))
    \/ CallRemoved(ModemPath, CallPath)
    \/ PropertyChanged(CallPath, IfVoiceCall, "Name", WireValue("Name", 1))

SpecRouter == InitRouter /\ [][NextRouter]_vars

\* SpecSignal: one mirror of any class, its PropertyChanged signals and
\* the other signals its class listens to.
NextSignal ==
    \/ \E m \in MirrorIds : ListenResolves(m)
    \/ \E m \in MirrorIds : ListenRejects(m)
    \/ \E s \in SignalSources : \E n \in SignalNames(s[2]) :
          \E v \in WireValues(n) : PropertyChanged(s[1], Iface(s[2]), n, v)
    \/ \E s \in SignalSources : \E g \in EntitySignals(s[2]) :
          \E a \in SignalArgs(g) : EntitySignal(s[1], Iface(s[2]), g, a)

SpecSignal == InitLive /\ [][NextSignal]_vars

\* SpecPair: two mirrors held at once: of one object and one interface, of
\* one object and two interfaces, or of two objects.  Setters, action
\* methods and PropertyChanged signals of either.
PairKinds ==
    {<<"Modem", "Modem">>, <<"Modem", "Handsfree">>, <<"Modem", "VoiceCall">>,
     <<"Handsfree", "NetworkRegistration">>}

InitPair ==
    /\ \E k \in PairKinds :
          mirrors = <<NewMirror(k[1], PathOf(k[1]), FullMap(k[1]), RootBus),
                      NewMirror(k[2], PathOf(k[2]), FullMap(k[2]), RootBus)>>
    /\ tasks = << >>
    /\ delivered = 0

\* one setter, one action method and one or two signals of each class
PairSetters == {"Online", "VoiceRecognition"}
PairActions == {"hangup", "scan"}
PairSignals == {"Online", "Name", "VoiceRecognition", "State", "Strength"}

NextPair ==
    \/ \E m \in MirrorIds : \E n \in Writable(mirrors[m].kind) \cap PairSetters :
          \E v \in WireValues(n) : Setter(m, n, v)
    \/ \E m \in MirrorIds : \E a \in Actions(mirrors[m].kind) \cap PairActions :
          ActionCall(m, a)
    \/ \E t \in TaskIds : ProxyResolves(t)
    \/ \E t \in TaskIds : CallRejects(t)
    \/ \E t \in TaskIds : CallReturns(t)
    \/ \E m \in MirrorIds : ListenResolves(m)
    \/ \E m \in MirrorIds : ListenRejects(m)
    \/ \E s \in SignalSources : \E n \in SignalNames(s[2]) \cap PairSignals :
          \E v \in WireValues(n) : PropertyChanged(s[1], Iface(s[2]), n, v)

SpecPair == InitPair /\ [][NextPair]_vars

\* SpecWindow: one mirror of any class from the moment its constructor
\* returned it, and the PropertyChanged signals its remote object emits
\* before and after the listener is registered.
NextWindow ==
    \/ \E m \in MirrorIds : ListenResolves(m)
    \/ \E m \in MirrorIds : ListenRejects(m)
    \/ \E s \in SignalSources : \E n \in SignalNames(s[2]) \ {UnknownProperty} :
          \E v \in WireValues(n) : Unheard(s[1], Iface(s[2]), n, v)
    \/ \E s \in SignalSources : \E n \in SignalNames(s[2]) \ {UnknownProperty} :
          \E v \in WireValues(n) : PropertyChanged(s[1], Iface(s[2]), n, v)

SpecWindow == InitLive /\ [][NextWindow]_vars

\* SpecTones: a VoiceCallManager of either version and sendTones calls on it.
ToneInputs == {"", "0", "19", "aD", "*#", "1e", "E", "+1", "1 "}

InitTones ==
    /\ \/ mirrors = <<NewMirror("VoiceCallManager", ModemPath,
                                FullMap("VoiceCallManager"), RootBus)>>
       \/ mirrors = <<NewMirror("VoiceCallManagerLegacy", ModemPath, << >>,
                                RootBus)>>
    /\ tasks = << >>
    /\ delivered = 0

NextTones ==
    \/ \E m \in MirrorIds : \E s \in ToneInputs : SendTones(m, s)
    \/ \E t \in TaskIds : ProxyResolves(t)
    \/ \E t \in TaskIds : ProxyRejects(t)
    \/ \E t \in TaskIds : CallRejects(t)
    \/ \E t \in TaskIds : CallReturns(t)
    \/ \E m \in MirrorIds : ListenResolves(m)
    \/ \E m \in MirrorIds : ListenRejects(m)

SpecTones == InitTones /\ [][NextTones]_vars

\* SpecDial: a VoiceCallManager and dial calls on it.
CallPath2 == "/modem0/voicecall02"

DialNumbers == {"112"}
HideCallerIdInputs == {Undefined, JBool(TRUE), JBool(FALSE)}

InitDial ==
    /\ mirrors = <<NewMirror("VoiceCallManager", ModemPath,
                             FullMap("VoiceCallManager"), RootBus)>>
    /\ tasks = << >>
    /\ delivered = 0

NextDial ==
    \/ \E m \in MirrorIds : \E n \in DialNumbers :
          \E h \in HideCallerIdInputs : DialCall(m, n, h)
    \/ \E t \in TaskIds : \E p \in {CallPath, CallPath2} : DialReturns(t, p)
    \/ \E t \in TaskIds : GetPropertiesReply(t, FullMap(tasks[t].kind))
    \/ \E t \in TaskIds : ProxyResolves(t)
    \/ \E t \in TaskIds : ProxyRejects(t)
    \/ \E t \in TaskIds : CallRejects(t)
    \/ \E m \in MirrorIds : ListenResolves(m)
    \/ \E m \in MirrorIds : ListenRejects(m)

SpecDial == InitDial /\ [][NextDial]_vars

\* SpecDecode: the construction paths of Modem and VoiceCall, answered
\* with property maps that hold every mandatory property or lack one.
DecodeListings ==
    LET good == <<ModemPath2, FullMap("Modem")>>
    IN  {<<good>>} \cup
        UNION {{<< <<ModemPath, r>> >>, <<good, <<ModemPath, r>> >>,
                << <<ModemPath, r>>, good>>} :
                  r \in {Without("Modem", "Online"), Without("Modem", "Type")}}

NextDecode ==
    \/ GetModemsCall
    \/ \E t \in TaskIds : \E l \in DecodeListings : GetModemsReply(t, l)
    \/ VoiceCallFromPath(CallPath)
    \/ \E t \in TaskIds :
          \E r \in {FullMap(tasks[t].kind)} \cup PartialMaps(tasks[t].kind) :
             GetPropertiesReply(t, r)
    \/ \E r \in {FullMap("VoiceCall")} \cup PartialMaps("VoiceCall") :
          FromDBusObject(CallPath, r)
    \/ \E t \in TaskIds : ProxyResolves(t)
    \/ \E t \in TaskIds : CallRejects(t)
    \/ \E m \in MirrorIds : ListenResolves(m)
    \/ \E m \in MirrorIds : ListenRejects(m)

SpecDecode == Init /\ [][NextDecode]_vars

\* SpecConverge: one subscribed Modem or Handsfree together with its remote
\* object.  The mirror record carries three more fields: remote, the remote
\* object's property values; inbox, the PropertyChanged signals it has
\* emitted and the bus has not delivered yet, oldest first; arrived, the
\* SetProperty calls in the order they reached it.
ConvergeSetters == {"Online", "VoiceRecognition"}

Subscribed(kind, raw) ==
    [NewMirror(kind, ModemPath, raw, RootBus)
        EXCEPT !.listen = "on", !.listeners = 1]
        @@ [remote |-> raw, inbox |-> << >>, arrived |-> << >>]

InitConverge ==
    /\ \E kind \in {"Modem", "Handsfree"} : \E raw \in RawMaps(kind) :
          mirrors = <<Subscribed(kind, raw)>>
    /\ tasks = << >>
    /\ delivered = 0

\* the SetProperty call of task t reaches the remote object: it stores the
\* value, emits PropertyChanged when the value changed, and answers
WriteArrives(t) ==
    /\ t \in TaskIds
    /\ tasks[t].op = "set"
    /\ tasks[t].pc = "call"
    /\ LET m == tasks[t].target
           changed == mirrors[m].remote[tasks[t].name] # tasks[t].value
       IN  mirrors' = [mirrors EXCEPT
               ![m].remote[tasks[t].name] = tasks[t].value,
               ![m].arrived = Append(@, t),
               ![m].inbox =
                   IF changed
                   THEN Append(@, [name |-> tasks[t].name,
                                   value |-> tasks[t].value])
                   ELSE @]
    /\ tasks' = ReplaceTask(t, Settle(tasks[t], "fulfilled", ""))
    /\ UNCHANGED delivered

\* A bus that hands over the newest pending signal first.
DeliverNextNewestFirst(m) ==
    /\ m \in MirrorIds
    /\ mirrors[m].listen = "on"
    /\ mirrors[m].inbox # << >>
    /\ LET n == Len(mirrors[m].inbox)
       IN  mirrors' = [mirrors EXCEPT
               ![m] = [Deliver(mirrors[m], mirrors[m].inbox[n].name,
                               mirrors[m].inbox[n].value)
                          EXCEPT !.inbox = SubSeq(@, 1, n - 1)]]
    /\ UNCHANGED <<tasks, delivered>>

\* the bus delivers the oldest pending PropertyChanged signal: the handler runs
DeliverNext(m) ==
    /\ m \in MirrorIds
    /\ mirrors[m].listen = "on"
    /\ mirrors[m].inbox # << >>
    /\ mirrors' = [mirrors EXCEPT
           ![m] = [Deliver(mirrors[m], Head(mirrors[m].inbox).name,
                           Head(mirrors[m].inbox).value)
                      EXCEPT !.inbox = Tail(@)]]
    /\ UNCHANGED <<tasks, delivered>>

\* a step of the async body of some call
AsyncStep ==
    \E t \in TaskIds :
        \/ ProxyResolves(t)
        \/ ProxyRejects(t)
        \/ WriteArrives(t)
        \/ CallRejects(t)

NextConverge ==
    \/ \E m \in MirrorIds :
          \E n \in Writable(mirrors[m].kind) \cap ConvergeSetters :
             \E v \in WireValues(n) : Setter(m, n, v)
    \/ \E t \in TaskIds : ProxyResolves(t)
    \/ \E t \in TaskIds : ProxyRejects(t)
    \/ \E t \in TaskIds : WriteArrives(t)
    \/ \E t \in TaskIds : CallRejects(t)
    \/ \E m \in MirrorIds : DeliverNext(m)

\* every call is answered and every emitted signal is delivered
SpecConverge ==
    /\ InitConverge
    /\ [][NextConverge]_vars
    /\ WF_vars(AsyncStep)
    /\ WF_vars(\E m \in MirrorIds : DeliverNext(m))

\* ============================================================ claims
\* helpers over a mirror's history
Naming(mir, p) == {i \in 1..Len(mir.log) : mir.log[i].name = p}

Last(S) == CHOOSE i \in S : \A j \in S : j <= i

\* the log entries that are notifications of a property the class models
ModelledNotifs(mir) ==
    {i \in 1..Len(mir.log) :
        mir.log[i].src = "notify" /\ mir.log[i].name \in Props(mir.kind)}

UnknownNotifs(mir) ==
    {i \in 1..Len(mir.log) :
        mir.log[i].src = "notify" /\ mir.log[i].name \notin Props(mir.kind)}

ChangeEvents(mir) ==
    {e \in 1..Len(mir.events) : mir.events[e].type = "change"}

SetPropertyRpcs(task) ==
    {i \in 1..Len(task.rpcs) : task.rpcs[i].method = "SetProperty"}

\* C1: on every mirror, a property whose last log entry is a notification
\* holds the value that notification carried, and a property no log entry
\* names holds the value the constructor gave it.
C1_LastNotificationWins ==
    \A m \in MirrorIds : \A p \in Props(mirrors[m].kind) :
        IF Naming(mirrors[m], p) = {}
        THEN mirrors[m].snap[p] = Snapshot(mirrors[m].kind, mirrors[m].raw)[p]
        ELSE LET e == mirrors[m].log[Last(Naming(mirrors[m], p))]
             IN  e.src = "notify" => mirrors[m].snap[p] = e.value

\* C2: an ofModem call, or a call of the older VoiceCallManager constructor,
\* on a modem whose interface list lacks the interface is rejected with the
\* capability error, has issued no RPC and has built no mirror; and every
\* dependent mirror was handed out by a call that passed the check.
C2_CapabilityGate ==
    /\ \A t \in TaskIds :
          (tasks[t].op \in {"ofModem", "new"} /\ ~tasks[t].capable)
              => /\ tasks[t].settled = "rejected"
                 /\ tasks[t].error = "capability"
                 /\ tasks[t].rpcs = << >>
                 /\ tasks[t].ret = << >>
    /\ \A m \in MirrorIds :
          mirrors[m].kind \in DependentKinds \cup {"VoiceCallManagerLegacy"}
              => \E t \in TaskIds :
                    /\ tasks[t].ret = <<m>>
                    /\ tasks[t].capable
                    /\ Includes(mirrors[tasks[t].target].snap["Interfaces"],
                                Iface(mirrors[m].kind))

C2_Witness ==
    \E t \in TaskIds :
        /\ tasks[t].op = "ofModem"
        /\ ~tasks[t].capable
        /\ tasks[t].settled = "rejected"

\* C3: when a setter call of a writable property is followed by a
\* notification of the same property with another value, and nothing later
\* names the property, the snapshot holds the notification's value, whatever
\* the state of the write.
C3_NotificationWins ==
    \A m \in MirrorIds : \A p \in Writable(mirrors[m].kind) :
        \A i, j \in Naming(mirrors[m], p) :
            (/\ i < j
             /\ j = Last(Naming(mirrors[m], p))
             /\ mirrors[m].log[i].src = "set"
             /\ mirrors[m].log[j].src = "notify"
             /\ mirrors[m].log[j].value # mirrors[m].log[i].value)
                => mirrors[m].snap[p] = mirrors[m].log[j].value

\* a setter call, then a contradicting notification while the write is
\* still in flight
C3_Witness ==
    \E m \in MirrorIds : \E t \in TaskIds :
        /\ Len(mirrors[m].log) = 2
        /\ mirrors[m].log[1].src = "set"
        /\ mirrors[m].log[2].src = "notify"
        /\ mirrors[m].log[2].name = mirrors[m].log[1].name
        /\ mirrors[m].log[2].value # mirrors[m].log[1].value
        /\ tasks[t].op = "set"
        /\ tasks[t].target = m
        /\ tasks[t].settled = "pending"

\* C4: a construction call that failed hands out no mirror, and no mirror
\* held by a caller has a failed subscription step.
C4_NoPartialMirror ==
    /\ \A t \in TaskIds : tasks[t].settled = "rejected" => tasks[t].ret = << >>
    /\ \A t \in TaskIds :
          tasks[t].op \in {"fromPath", "ofModem"}
              => \A i \in 1..Len(tasks[t].ret) :
                    mirrors[tasks[t].ret[i]].listen # "rejected"

\* C5: a mirror that fromPath or ofModem resolved with has its
\* PropertyChanged listener registered.
C5_ResolvedMeansLive ==
    \A t \in TaskIds :
        (tasks[t].op \in {"fromPath", "ofModem"} /\ tasks[t].settled = "fulfilled")
            => \A i \in 1..Len(tasks[t].ret) :
                  mirrors[tasks[t].ret[i]].listen = "on"

\* C6: every notification of a modelled property has exactly one 'change'
\* event caused by it, and the 'change' events are in the order of their
\* notifications.
C6_OneChangePerNotification ==
    \A m \in MirrorIds :
        /\ \A i \in ModelledNotifs(mirrors[m]) :
              Cardinality({e \in ChangeEvents(mirrors[m]) :
                              mirrors[m].events[e].cause = i}) = 1
        /\ \A e, f \in ChangeEvents(mirrors[m]) :
              e < f => mirrors[m].events[e].cause < mirrors[m].events[f].cause

\* C7: a step that delivers a notification of a property the class does not
\* model leaves the snapshot as it was and adds no 'change' event.
C7_UnknownIgnored ==
    [][\A m \in MirrorIds :
          (/\ Len(mirrors'[m].log) = Len(mirrors[m].log) + 1
           /\ Len(mirrors'[m].log) \in UnknownNotifs(mirrors'[m]))
              => /\ mirrors'[m].snap = mirrors[m].snap
                 /\ ChangeEvents(mirrors'[m]) = ChangeEvents(mirrors[m])]_vars

\* C8 as claimed: after a setter call the snapshot holds the written value
\* until a notification names the property, and a finished write has issued
\* exactly one SetProperty RPC, for that name and value on the mirror's own
\* path and interface.
C8_ExactlyOneWrite ==
    /\ \A m \in MirrorIds : \A p \in Writable(mirrors[m].kind) :
          (/\ Naming(mirrors[m], p) # {}
           /\ mirrors[m].log[Last(Naming(mirrors[m], p))].src = "set")
              => mirrors[m].snap[p]
                    = mirrors[m].log[Last(Naming(mirrors[m], p))].value
    /\ \A t \in TaskIds :
          (tasks[t].op = "set" /\ tasks[t].pc = "end")
              => /\ Cardinality(SetPropertyRpcs(tasks[t])) = 1
                 /\ \A i \in SetPropertyRpcs(tasks[t]) :
                       tasks[t].rpcs[i] =
                          Rpc("SetProperty", mirrors[tasks[t].target].path,
                              Iface(mirrors[tasks[t].target].kind),
                              tasks[t].name, tasks[t].value)

\* C8 as amended: the same, but the SetProperty RPC is issued once the proxy
\* lookup has resolved: exactly one from then on, none when the lookup fails.
C8_OneWriteAfterLookup ==
    /\ \A m \in MirrorIds : \A p \in Writable(mirrors[m].kind) :
          (/\ Naming(mirrors[m], p) # {}
           /\ mirrors[m].log[Last(Naming(mirrors[m], p))].src = "set")
              => mirrors[m].snap[p]
                    = mirrors[m].log[Last(Naming(mirrors[m], p))].value
    /\ \A t \in TaskIds :
          tasks[t].op = "set"
              => /\ Cardinality(SetPropertyRpcs(tasks[t])) =
                       IF tasks[t].pc = "proxy" \/ tasks[t].error = "proxy"
                       THEN 0 ELSE 1
                 /\ \A i \in SetPropertyRpcs(tasks[t]) :
                       tasks[t].rpcs[i] =
                          Rpc("SetProperty", mirrors[tasks[t].target].path,
                              Iface(mirrors[tasks[t].target].kind),
                              tasks[t].name, tasks[t].value)

\* a write whose SetProperty RPC failed, with the written value still in the
\* snapshot
C8_Witness ==
    \E t \in TaskIds :
        /\ tasks[t].op = "set"
        /\ tasks[t].settled = "rejected"
        /\ tasks[t].error = "remote"
        /\ mirrors[tasks[t].target].snap[tasks[t].name] = tasks[t].value
        /\ mirrors[tasks[t].target].snap[tasks[t].name]
              # Snapshot(mirrors[tasks[t].target].kind,
                         mirrors[tasks[t].target].raw)[tasks[t].name]

\* C9: a step in which the RPC of a property write or of an action method
\* fails rejects a promise the caller holds, and leaves every mirror, its
\* subscription included, as it was.
C9_FailureSurfaced ==
    [][\A t \in TaskIds :
          (/\ tasks[t].op \in {"set", "action"}
           /\ tasks[t].settled = "pending"
           /\ tasks'[t].settled = "rejected")
              => /\ ~tasks'[t].floating
                 /\ mirrors' = mirrors]_vars

\* C10: a Modem or VoiceCall built by fromDBusObject reads, for every
\* property the raw map holds, the supplied value (for State: the member of
\* VoiceCallState with that wire string), and for every property it lacks,
\* an absent value.
C10_DecodedSnapshot ==
    \A t \in TaskIds :
        tasks[t].op \in {"getModems", "fromDBusObject"}
            => \A i \in 1..Len(tasks[t].ret) :
                  LET mir == mirrors[tasks[t].ret[i]]
                  IN  \A p \in Props(mir.kind) :
                         IF p \in DOMAIN mir.raw
                         THEN /\ mir.snap[p] = mir.raw[p]
                              /\ p = "State" =>
                                    mir.snap[p] \in EnumMembers(VoiceCallState)
                         ELSE mir.snap[p] \in {Null, Undefined}

\* the step delivers to mirror m a notification of a modelled property whose
\* value its declared type does not admit
MalformedStep(m) ==
    /\ Len(mirrors'[m].log) = Len(mirrors[m].log) + 1
    /\ LET e == mirrors'[m].log[Len(mirrors'[m].log)]
       IN  /\ e.src = "notify"
           /\ e.name \in Props(mirrors[m].kind)
           /\ ~WellFormed(e.name, e.value)

\* C11: a notification whose value does not match the property's type or
\* enum is not applied: the snapshot is as before and the handler does not
\* throw.
C11_MalformedSkipped ==
    [][\A m \in MirrorIds :
          MalformedStep(m) => /\ mirrors'[m].snap = mirrors[m].snap
                              /\ ~mirrors'[m].threw]_vars

\* C12: a notification whose value has the wrong tag for its property does
\* not throw out of the handler and leaves every other property of the
\* snapshot as it was.
C12_WrongTagFrame ==
    [][\A m \in MirrorIds :
          MalformedStep(m)
              => /\ ~mirrors'[m].threw
                 /\ \A q \in Props(mirrors[m].kind) :
                       q # mirrors'[m].log[Len(mirrors'[m].log)].name
                          => mirrors'[m].snap[q] = mirrors[m].snap[q]]_vars

\* a VoiceCall that handled a State notification carrying a number
C12_Witness ==
    \E m \in MirrorIds : \E i \in 1..Len(mirrors[m].log) :
        /\ mirrors[m].kind = "VoiceCall"
        /\ mirrors[m].log[i].src = "notify"
        /\ mirrors[m].log[i].name = "State"
        /\ mirrors[m].log[i].value.t = "number"

\* C18: a step in which an action method is called, or in which the async
\* body of one advances, returns or fails, changes no mirror.
C18_ActionsLeaveSnapshot ==
    [][\A t \in 1..Len(tasks') :
          (/\ tasks'[t].op = "action"
           /\ (t > Len(tasks) \/ tasks'[t] # tasks[t]))
              => mirrors' = mirrors]_vars

\* one action that returned and one that failed, on a mirror whose snapshot
\* is still what its constructor built
C18_Witness ==
    \E t, u \in TaskIds :
        /\ tasks[t].op = "action"
        /\ tasks[u].op = "action"
        /\ tasks[t].settled = "fulfilled"
        /\ tasks[u].settled = "rejected"
        /\ tasks[u].error = "remote"
        /\ tasks[u].target = tasks[t].target
        /\ mirrors[tasks[t].target].snap
              = Snapshot(mirrors[tasks[t].target].kind,
                         mirrors[tasks[t].target].raw)

\* C19: the method an action method invokes on the interface is the one
\* named after it, so no two action methods of a class invoke the same one.
C19_OwnRemoteMethod ==
    LET Named(action) ==
            CASE action = "deflect" -> "Deflect"
              [] action = "hangup" -> "Hangup"
              [] action = "answer" -> "Answer"
              [] action = "register" -> "Register"
              [] action = "getOperators" -> "GetOperators"
              [] action = "scan" -> "Scan"
              [] action = "transfer" -> "Transfer"
              [] action = "swapCalls" -> "SwapCalls"
              [] action = "hangupAll" -> "HangupAll"
    IN  \A t \in TaskIds :
           (tasks[t].op = "action" /\ Len(tasks[t].rpcs) >= 2)
               => /\ tasks[t].rpcs[2].method = Named(tasks[t].name)
                  /\ \A a \in Actions(tasks[t].kind) \ {tasks[t].name} :
                        tasks[t].rpcs[2].method
                           # RemoteMethod(tasks[t].kind, a)

\* C17: an ofModem call fails the capability check exactly when the modem
\* mirror's interface list, as the notifications so far left it, lacks the
\* interface; and a step that changes a modem mirror changes no other mirror
\* and no call in flight.
C17_CapabilityReadAtCall ==
    [][/\ \A t \in 1..Len(tasks') :
             (t > Len(tasks) /\ tasks'[t].op = "ofModem")
                 => ((tasks'[t].error = "capability")
                       <=> ~Includes(mirrors[tasks'[t].target].snap["Interfaces"],
                                     Iface(tasks'[t].kind)))
       /\ \A m \in MirrorIds :
             (mirrors[m].kind = "Modem" /\ mirrors'[m] # mirrors[m])
                 => /\ tasks' = tasks
                    /\ \A o \in MirrorIds \ {m} : mirrors'[o] = mirrors[o]]_vars

\* a dependent object whose interface a notification has since removed from
\* the modem's list, still subscribed and applying its own notifications
C17_Witness ==
    \E m, d \in MirrorIds :
        /\ mirrors[m].kind = "Modem"
        /\ mirrors[d].kind \in DependentKinds
        /\ Includes(mirrors[m].raw["Interfaces"], Iface(mirrors[d].kind))
        /\ ~Includes(mirrors[m].snap["Interfaces"], Iface(mirrors[d].kind))
        /\ mirrors[d].listen = "on"
        /\ Len(mirrors[d].log) = 1
        /\ mirrors[d].snap # Snapshot(mirrors[d].kind, mirrors[d].raw)

\* C13: every ModemAdded or CallAdded signal a directory or manager handled
\* left it with no exception and with exactly one added event caused by the
\* signal, carrying one mirror whose path is the notified path and which was
\* built from the notified property map.
C13_ChildAdded ==
    \A m \in MirrorIds : \A i \in 1..Len(mirrors[m].log) :
        mirrors[m].log[i].name \in {"ModemAdded", "CallAdded"}
            => /\ ~mirrors[m].threw
               /\ Cardinality({e \in 1..Len(mirrors[m].events) :
                                  mirrors[m].events[e].cause = i}) = 1
               /\ \A e \in 1..Len(mirrors[m].events) :
                     mirrors[m].events[e].cause = i
                        => /\ mirrors[m].events[e].type \in {"add", "callAdded"}
                           /\ \E c \in MirrorIds :
                                 /\ mirrors[m].events[e].children = {c}
                                 /\ mirrors[c].path = mirrors[m].log[i].value.v
                                 /\ mirrors[c].raw = mirrors[m].log[i].props

\* the step in which mirror m handles a ModemRemoved or CallRemoved signal
RemovalStep(m) ==
    /\ Len(mirrors'[m].log) = Len(mirrors[m].log) + 1
    /\ mirrors'[m].log[Len(mirrors'[m].log)].name
          \in {"ModemRemoved", "CallRemoved"}

\* C14: handling a removal signal emits exactly one removed event carrying
\* the path and changes nothing else: not the handler's own snapshot or
\* subscription, not any other mirror, not the number of mirrors, not any
\* call in flight.
C14_RemovalOnlyNotifies ==
    [][\A m \in MirrorIds :
          RemovalStep(m)
              => /\ Len(mirrors'[m].events) = Len(mirrors[m].events) + 1
                 /\ mirrors'[m].events[Len(mirrors'[m].events)].type
                       \in {"remove", "callRemoved"}
                 /\ mirrors'[m].events[Len(mirrors'[m].events)].path
                       = mirrors'[m].log[Len(mirrors'[m].log)].value.v
                 /\ mirrors'[m].snap = mirrors[m].snap
                 /\ mirrors'[m].listen = mirrors[m].listen
                 /\ mirrors'[m].threw = mirrors[m].threw
                 /\ Len(mirrors') = Len(mirrors)
                 /\ \A o \in MirrorIds \ {m} : mirrors'[o] = mirrors[o]
                 /\ tasks' = tasks]_vars

\* a manager that emitted callRemoved for the path of a call mirror the
\* program holds, that mirror being still subscribed and as it was built
C14_Witness ==
    \E m \in MirrorIds : \E e \in 1..Len(mirrors[m].events) :
        /\ mirrors[m].events[e].type = "callRemoved"
        /\ mirrors[m].events[e].children # {}
        /\ \A c \in mirrors[m].events[e].children :
              /\ mirrors[c].path = mirrors[m].events[e].path
              /\ mirrors[c].listen = "on"
              /\ mirrors[c].snap = Snapshot(mirrors[c].kind, mirrors[c].raw)

\* C15: once a removed event was emitted for a path, no later step applies a
\* notification to a mirror of that path the program held at that moment.
C15_RemovedChildUnsubscribed ==
    [][\A m \in MirrorIds : \A e \in 1..Len(mirrors[m].events) :
          mirrors[m].events[e].type \in {"remove", "callRemoved"}
              => \A c \in mirrors[m].events[e].children :
                    /\ mirrors'[c].snap = mirrors[c].snap
                    /\ mirrors'[c].log = mirrors[c].log]_vars

\* C16: every mirror holds the connection the directory object was given.
C16_OneConnection ==
    \A m \in MirrorIds : mirrors[m].bus = RootBus

C21_EndToEnd ==
    \A t \in TaskIds :
        (/\ tasks[t].op = "getModems"
         /\ tasks[t].settled = "fulfilled"
         /\ tasks[t].reply = << <<ModemPath, MinimalMap("Modem")>> >>)
            => /\ Len(tasks[t].ret) = 1
               /\ mirrors[tasks[t].ret[1]].snap["Online"] = JBool(TRUE)
               /\ mirrors[tasks[t].ret[1]].snap["Interfaces"]
                     = JArr(<<IfVoiceCallManager>>)
               /\ \A u \in TaskIds :
                     (tasks[u].op \in {"ofModem", "new"}
                            /\ tasks[u].target = tasks[t].ret[1])
                        => CASE tasks[u].kind = "NetworkRegistration" ->
                                   /\ tasks[u].settled = "rejected"
                                   /\ tasks[u].error = "capability"
                                   /\ tasks[u].rpcs = << >>
                             [] tasks[u].kind \in {"VoiceCallManager",
                                                   "VoiceCallManagerLegacy"} ->
                                   /\ tasks[u].error # "capability"
                                   /\ tasks[u].rpcs = << >>
                             [] OTHER -> TRUE

\* the step in which mirror m handles a signal other than PropertyChanged
SignalStep(m) ==
    /\ Len(mirrors'[m].log) = Len(mirrors[m].log) + 1
    /\ mirrors'[m].log[Len(mirrors'[m].log)].src = "signal"

\* C22: handling DisconnectReason, BarringActive or Forwarded emits exactly
\* one event, of the signal's own kind and never 'change', carrying the
\* signal's argument, and leaves the snapshot as it was.
C22_SignalsForwarded ==
    [][\A m \in MirrorIds :
          SignalStep(m)
              => LET entry == mirrors'[m].log[Len(mirrors'[m].log)]
                     n == Len(mirrors'[m].events)
                 IN  /\ n = Len(mirrors[m].events) + 1
                     /\ SubSeq(mirrors'[m].events, 1, n - 1)
                           = mirrors[m].events
                     /\ mirrors'[m].events[n].type = EventKind(entry.name)
                     /\ mirrors'[m].events[n].type # "change"
                     /\ mirrors'[m].events[n].arg = entry.value
                     /\ mirrors'[m].snap = mirrors[m].snap]_vars

\* a call mirror that emitted 'change' for a notification and then
\* 'disconnectReason' with the reason the signal carried
C22_Witness ==
    \E m \in MirrorIds :
        /\ mirrors[m].kind = "VoiceCall"
        /\ Len(mirrors[m].events) = 2
        /\ mirrors[m].events[1].type = "change"
        /\ mirrors[m].events[2].type = "disconnectReason"
        /\ mirrors[m].events[2].arg = JStr("remote")

\* C23: a setter call changes no mirror but the one it was called on; a
\* delivered notification changes only mirrors subscribed to one and the same
\* object path and interface, each of which records it; no other step
\* changes the snapshot or the events of any mirror.
C23_DisjointState ==
    [][/\ \A t \in TaskIds' \ TaskIds :
             tasks'[t].op \in {"set", "action"}
                => \A o \in MirrorIds \ {tasks'[t].target} :
                      mirrors'[o] = mirrors[o]
       /\ \A m \in MirrorIds :
             (mirrors'[m].snap # mirrors[m].snap
                    \/ mirrors'[m].events # mirrors[m].events)
                => Len(mirrors'[m].log) = Len(mirrors[m].log) + 1
       /\ \A m, o \in MirrorIds :
             (/\ Len(mirrors'[m].log) = Len(mirrors[m].log) + 1
              /\ mirrors'[m].log[Len(mirrors'[m].log)].src = "notify"
              /\ mirrors'[o] # mirrors[o])
                => /\ mirrors[o].path = mirrors[m].path
                   /\ Iface(mirrors[o].kind) = Iface(mirrors[m].kind)]_vars

\* a Modem and a Handsfree mirror of one object path, both subscribed: the
\* modem applied a notification and had a setter called, the Handsfree
\* mirror is as its constructor left it
C23_Witness ==
    /\ Len(mirrors) = 2
    /\ mirrors[1].kind = "Modem"
    /\ mirrors[2].kind = "Handsfree"
    /\ mirrors[1].path = mirrors[2].path
    /\ mirrors[1].listen = "on"
    /\ mirrors[2].listen = "on"
    /\ Len(mirrors[1].log) = 2
    /\ mirrors[1].log[1].src = "notify"
    /\ mirrors[1].log[2].src = "set"
    /\ mirrors[1].snap # Snapshot("Modem", mirrors[1].raw)
    /\ mirrors[2].log = << >>
    /\ mirrors[2].events = << >>
    /\ mirrors[2].snap = Snapshot("Handsfree", mirrors[2].raw)

\* C24: a notification emitted before the listener is registered is never
\* applied, neither when it is emitted nor when the listener is registered:
\* a snapshot field changes only in a step in which a registered listener
\* handles a notification naming that property.
C24_WindowNotReplayed ==
    [][\A m \in MirrorIds :
          /\ mirrors'[m].events # mirrors[m].events
                => Len(mirrors'[m].log) = Len(mirrors[m].log) + 1
          /\ \A p \in DOMAIN mirrors[m].snap :
                mirrors'[m].snap[p] # mirrors[m].snap[p]
                   => /\ mirrors[m].listen = "on"
                      /\ Len(mirrors'[m].log) = Len(mirrors[m].log) + 1
                      /\ mirrors'[m].log[Len(mirrors'[m].log)].src = "notify"
                      /\ mirrors'[m].log[Len(mirrors'[m].log)].name = p
                      /\ mirrors'[m].missed = mirrors[m].missed]_vars

\* a Modem whose remote object went offline inside the window: the listener
\* is registered, a later notification of another property was applied, and
\* the snapshot still says online
C24_Witness ==
    \E m \in MirrorIds :
        /\ mirrors[m].kind = "Modem"
        /\ mirrors[m].listen = "on"
        /\ mirrors[m].raw["Online"] = JBool(TRUE)
        /\ mirrors[m].missed = <<[name |-> "Online", value |-> JBool(FALSE)]>>
        /\ Len(mirrors[m].log) = 1
        /\ mirrors[m].log[1].name = "Name"
        /\ mirrors[m].snap["Online"] = JBool(TRUE)

\* the characters the claim allows in a tone string
AllowedTones ==
    {"0", "1", "2", "3", "4", "5", "6", "7", "8", "9", "A", "B", "C", "D",
     "a", "b", "c", "d", "*", "#"}

SendTonesRpcs(task) ==
    {i \in 1..Len(task.rpcs) : task.rpcs[i].method = "SendTones"}

DialRpcs(task) ==
    {i \in 1..Len(task.rpcs) : task.rpcs[i].method = "Dial"}

Required(kind) ==
    CASE kind = "Modem" -> {"Online", "Powered", "Lockdown", "Interfaces",
                            "Type"}
      [] kind = "VoiceCall" -> {"LineIdentification", "Name", "Multiparty",
                                "State", "Emergency", "RemoteHeld",
                                "RemoteMultiparty"}

\* the entries of a task's reply whose map lacks a mandatory property
Lacking(task) ==
    {i \in 1..Len(task.reply) :
        ~(Required(task.kind) \subseteq DOMAIN task.reply[i][2])}

\* C27: in the step in which a construction of a Modem or VoiceCall receives
\* a property map that lacks a mandatory property, the call is rejected with
\* the exception of the failed read and hands out no mirror; no mirror comes
\* into being for that map's path, and no mirror that existed is changed,
\* so nothing subscribes for it.
C27_MissingMandatoryThrows ==
    [][\A t \in TaskIds' :
          (/\ tasks'[t].op \in {"getModems", "fromPath", "fromDBusObject"}
           /\ tasks'[t].reply # << >>
           /\ (t \in TaskIds => tasks[t].reply = << >>)
           /\ Lacking(tasks'[t]) # {})
              => /\ tasks'[t].settled = "rejected"
                 /\ tasks'[t].error = "type"
                 /\ tasks'[t].ret = << >>
                 /\ \A m \in MirrorIds : mirrors'[m] = mirrors[m]
                 /\ \A m \in MirrorIds' \ MirrorIds :
                       \A i \in Lacking(tasks'[t]) :
                          mirrors'[m].path # tasks'[t].reply[i][1]]_vars

\* a getModems call answered with a complete entry followed by one that
\* lacks Type: it was rejected, handed out nothing, and the only mirror is
\* the one of the complete entry
C27_Witness ==
    \E t \in TaskIds :
        /\ tasks[t].op = "getModems"
        /\ tasks[t].error = "type"
        /\ Len(tasks[t].reply) = 2
        /\ Lacking(tasks[t]) = {2}
        /\ "Type" \notin DOMAIN tasks[t].reply[2][2]
        /\ tasks[t].ret = << >>
        /\ Len(mirrors) = 1
        /\ mirrors[1].path = tasks[t].reply[1][1]

\* the properties the constructors do not store as received
Decoded == {"State", "Mode", "Status", "Technology", "Features"}

\* the raw map a mirror was built from, with property p carrying r
RawWith(raw, p, r) ==
    [q \in DOMAIN raw \cup {p} |-> IF q = p THEN r ELSE raw[q]]

\* C28: when a PropertyChanged notification for State, Mode, Status,
\* Technology or Features carries the raw value r, the snapshot value stored
\* is the one the constructor stores when the property map carries r.
C28_OneRepresentation ==
    [][\A m \in MirrorIds :
          (/\ Len(mirrors'[m].log) = Len(mirrors[m].log) + 1
           /\ mirrors'[m].log[Len(mirrors'[m].log)].src = "notify"
           /\ mirrors'[m].log[Len(mirrors'[m].log)].name
                 \in Decoded \cap Props(mirrors[m].kind))
              => LET entry == mirrors'[m].log[Len(mirrors'[m].log)]
                 IN  mirrors'[m].snap[entry.name] =
                        Snapshot(mirrors[m].kind,
                                 RawWith(mirrors[m].raw, entry.name,
                                         entry.value))[entry.name]]_vars

\* a setProperty call failed, at the proxy lookup or at SetProperty
SetPropertyFailed ==
    \E t \in TaskIds : tasks[t].op = "set" /\ tasks[t].settled = "rejected"

\* every written property reads as the remote object holds it
Agrees ==
    \A t \in TaskIds :
        tasks[t].op = "set"
            => mirrors[tasks[t].target].snap[tasks[t].name]
                  = mirrors[tasks[t].target].remote[tasks[t].name]

\* C29: on a subscribed mirror, when no setProperty call fails, the remote
\* emits a notification for every write that changes its value and the
\* notifications are delivered in emission order, the mirror reaches and
\* stays in a state in which every written property reads as the remote
\* object holds it, in whatever order the writes reached the remote.
C29_Converges == <>[](SetPropertyFailed \/ Agrees)

\* two setter calls on Online whose writes reached the remote in the opposite
\* order: everything is settled and delivered, and the snapshot holds the
\* remote's value, which is not the value written last
C29_Witness ==
    /\ Len(tasks) = 2
    /\ Len(mirrors) = 1
    /\ "arrived" \in DOMAIN mirrors[1]
    /\ mirrors[1].arrived = <<2, 1>>
    /\ mirrors[1].inbox = << >>
    /\ tasks[1].name = "Online"
    /\ tasks[2].name = "Online"
    /\ tasks[1].settled = "fulfilled"
    /\ tasks[2].settled = "fulfilled"
    /\ mirrors[1].snap["Online"] = mirrors[1].remote["Online"]
    /\ mirrors[1].snap["Online"] # tasks[2].value

\* C30: the number of PropertyChanged handlers of a mirror goes from none to
\* one in a step of the listenForChanges call its constructor started, and
\* never changes otherwise: not in a setter, an action method, a step of
\* their async bodies or a notification.  No step makes a mirror record more
\* than one handler run or emit more than one event.
C30_ListenersOnce ==
    [][\A m \in MirrorIds :
          /\ mirrors'[m].listeners <= 1
          /\ mirrors'[m].listeners # mirrors[m].listeners
                => /\ mirrors[m].listen = "proxy"
                   /\ mirrors[m].listeners = 0
                   /\ mirrors'[m].listen = "on"
                   /\ tasks' = tasks
                   /\ delivered' = delivered
          /\ Len(mirrors'[m].log) <= Len(mirrors[m].log) + 1
          /\ Len(mirrors'[m].events) <= Len(mirrors[m].events) + 1
          /\ Cardinality(ChangeEvents(mirrors'[m]))
                <= Cardinality(ChangeEvents(mirrors[m])) + 1]_vars

\* a mirror with its one handler registered, after a setter call whose
\* SetProperty was issued and a notification that ran the handler once
C30_Witness ==
    \E m \in MirrorIds : \E t \in TaskIds :
        /\ mirrors[m].listeners = 1
        /\ tasks[t].op = "set"
        /\ tasks[t].target = m
        /\ tasks[t].pc = "call"
        /\ Len(mirrors[m].log) = 2
        /\ mirrors[m].log[1].src = "set"
        /\ mirrors[m].log[2].src = "notify"
        /\ Cardinality(ChangeEvents(mirrors[m])) = 1

====
